---- MODULE Spec2Model ----
(***************************************************************************)
(* Audio pipeline of the meeting recorder                                  *)
(* (frontend/src-tauri/src/audio/pipeline.rs): the capture callbacks, the  *)
(* input channel, the pipeline task (AudioPipeline::run), the pipeline     *)
(* manager (stop / force_flush_and_stop) and the two sinks.                *)
(*                                                                         *)
(* Audio payloads are represented by their sample counts; a mixed window   *)
(* and a VAD segment carry a serial number that identifies them.           *)
(* The mixer (FFmpegAudioMixer), the VAD (ContinuousVadProcessor) and      *)
(* RecordingState live outside the files at hand and are modelled from     *)
(* their documented contracts.                                             *)
(*                                                                         *)
(* CaptureSpec looks at the capture callbacks alone (resampling, chunk     *)
(* emission, error reports); SummarySpec at the choice of strategy in      *)
(* summary/processor.rs (generate_meeting_summary).                        *)
(***************************************************************************)
EXTENDS Integers, Sequences, FiniteSets, TLC

\* ------------------------------------------------------------------ bounds
ChunkIdBits == 8      \* width of chunk_id in the model (u64 in the code)
MaxCallbacks == 2     \* capture callbacks that pass the is_recording check
MaxSegments == 2      \* speech segments the VAD hands out
MaxMgrCalls == 1      \* calls of stop() / force_flush_and_stop()
MaxTextLen == 10      \* characters of a text given to chunk_text
MaxTokens == 5        \* pieces of a text given to clean_llm_markdown_output
MaxEarlyReturns == 1  \* capture callbacks after the recording has stopped
MaxCallers == 3       \* calls of initialize_ffmpeg
MaxProbes == 2        \* calls of is_ffmpeg_ready and get_ffmpeg_path
UsizeBits == 24       \* width of usize, scaled down
MaxStreamErrors == 1  \* errors already reported when a stream error is handled, at most

\* --------------------------------------------------------------- constants
U64_MAX == 2^ChunkIdBits - 1
FLUSH_SIGNAL_MARGIN == 10          \* chunk.chunk_id >= u64::MAX - 10
MIN_SEGMENT_SAMPLES == 800         \* segment.samples.len() >= 800 (run loop)
MIN_FINAL_SEGMENT_SAMPLES == 800   \* segment.samples.len() >= 800 (flush)
TRANSCRIPTION_SAMPLE_RATE == 16000
WINDOW_SAMPLES == 2400             \* 50 ms at 48 kHz
FIRST_SLEEP_MS == 20
SECOND_SLEEP_MS == 10
ADDITIONAL_FLUSHES == 3
TARGET_SAMPLE_RATE == 48000        \* const TARGET_SAMPLE_RATE: u32 = 48000
RESAMPLER_CHUNK_SIZE == 512        \* const RESAMPLER_CHUNK_SIZE: usize = 512
DEFAULT_TOKEN_THRESHOLD == 4000    \* fallback threshold for Ollama
CLOUD_TOKEN_THRESHOLD == 100000    \* threshold of the other providers
OVERHEAD_TOKENS == 300             \* taken off the context size
CHUNK_OVERHEAD_TOKENS == 300       \* taken off the threshold for the chunk size
OVERLAP_TOKENS == 100              \* overlap of the chunks

Sources == {"Microphone", "System"}
\* sample counts of the conditioned chunks a callback emits:
\* half a window, and two windows
ChunkSizes == {1200, 4800}
\* lengths of the segments the VAD returns, around the 800-sample threshold
SegLens == {799, 800}
\* value of a capture's chunk counter when the observed session begins: a
\* fresh capture, and one whose counter is about to reach the flush range
CounterStarts == {0, U64_MAX - 11}
\* device sample rates: a Bluetooth headset's 16 kHz and the pipeline's own
DeviceRates == {16000, 48000}
\* samples per capture callback: less than a resampler block, and more than two
CallbackSizes == {320, 1100}
\* LLMProvider
Providers == {"OpenAI", "Claude", "Groq", "Ollama", "OpenRouter"}
\* transcript lengths in characters, around four characters per token times
\* each threshold
TextLens == {0, 12, 13, 15, 16, 17, 15999, 16000, 16001}
\* token thresholds: a tiny context and the default
\* texts of at most MaxTextLen characters, each a letter or a space
ChunkTexts == UNION {[1..n -> {"a", " "}] : n \in 0..MaxTextLen}
\* the character U+0060, written as a word, and three of them
BACKTICK == "BACKTICK"
FENCE == <<BACKTICK, BACKTICK, BACKTICK>>

\* pieces an LLM answer is put together from
MarkdownTokens == {<<"<", "t", "h", "i", "n", "k", ">">>,
                   <<"<", "/", "t", "h", "i", "n", "k", ">">>,
                   <<"<">>,
                   <<"t", "h", "i", "n", "k", ">">>,
                   FENCE \o <<"\n">>,
                   FENCE,
                   <<"a">>}
ChunkSizeTokens == {0, 1, 2}
OverlapTokens == {0, 1, 2}
\* provider names a run is started with
ModelProviders == {<<"o", "l", "l", "a", "m", "a">>,
                   <<"O", "l", "l", "a", "m", "a">>,
                   <<"o", "p", "e", "n", "a", "i">>,
                   <<"C", "l", "a", "u", "d", "e">>,
                   <<"G", "R", "O", "Q">>,
                   <<"o", "p", "e", "n", "r", "o", "u", "t", "e", "r">>,
                   <<"g", "e", "m", "i", "n", "i">>,
                   <<>>}
\* text.chars().count() of the transcripts
TranscriptLens == {0, 1000, 20000, 40000}
\* metadata.context_size of the Ollama models
ContextSizes == {0, 500, 600, 4096}
\* answers to the final request
RawMarkdowns == {<<"#", " ", "T", "\n", "b">>,
                 <<"a", "\n", "#", " ", "T", "\n", "b">>,
                 <<"a", "#", "\n", "#", " ", "T", "\n", "b">>,
                 <<"#", " ", "T", "\n", "b", "#">>,
                 <<"#", " ", "T">>,
                 <<"#", " ", " ", "\n", "b">>,
                 FENCE \o <<"\n", "#", " ", "T", "\n", "b", "\n">> \o FENCE,
                 <<"b">>}
\* the callers of initialize_ffmpeg
Callers == 1..MaxCallers
\* where find_ffmpeg_path_internal finds the executable
FoundPaths == {"PATH", "sidecar"}
Thresholds == {4, DEFAULT_TOKEN_THRESHOLD}

VARIABLES
    \* RecordingState
    is_recording,        \* RecordingState.is_recording
    state_sender,        \* RecordingState.audio_sender is Some
    clock,               \* RecordingState.get_recording_duration()
    errors,              \* what RecordingState.report_error was given, in order
    \* AudioCapture, one per source
    sample_rate,         \* AudioCapture.sample_rate (the device's rate)
    resampler,           \* AudioCapture.resampler is Some
    resampler_input_buffer, \* samples held in AudioCapture.resampler_input_buffer
    recording_sender,    \* AudioCapture.recording_sender is Some
    chunk_counter,       \* AudioCapture.chunk_counter
    callbacks,           \* callbacks that passed the is_recording check so far
    early_returns,       \* callbacks that returned at the is_recording check
    saver_sink,          \* chunks sent on AudioCapture.recording_sender
    buffered_in,         \* samples appended to resampler_input_buffer so far
    \* input channel
    queue,               \* chunks sent and not yet received
    \* AudioPipeline
    pipe_pc,             \* position of the pipeline task
    cur_ts,              \* chunk.timestamp of the chunk being drained
    processed_chunks,    \* AudioPipeline.processed_chunks
    chunk_id_counter,    \* AudioPipeline.chunk_id_counter
    has_rec_sender,      \* recording_sender_for_mixed is Some
    mic_buf, sys_buf,    \* samples buffered in the mixer per source
    popped,              \* windows popped from the mixer so far
    vad_open,            \* the VAD holds an in-progress segment
    vad_seq,             \* segments handed out by the VAD so far
    \* sinks
    tx_open,             \* the transcription receiver is alive
    transcription_sink,  \* chunks delivered on transcription_sender
    recording_sink,      \* chunks delivered on recording_sender_for_mixed
    \* AudioPipelineManager
    mgr_sender,          \* AudioPipelineManager.audio_sender is Some
    mgr_handle,          \* AudioPipelineManager.pipeline_handle is Some
    mgr_started,         \* start() has been called
    mgr_pc,              \* position of the manager's caller
    mgr_op,              \* the manager method that is running or ran last
    mgr_calls,           \* manager methods called so far
    mgr_trace,           \* what the running manager method did, in order
    \* observation only
    received,            \* chunks received from the input channel so far
    reserved_received,   \* those of them with a chunk_id in [u64::MAX-9, u64::MAX]
    handled,             \* chunk ids received and how each was treated
    vad_fed,             \* windows passed to vad_processor.process_audio
    vad_errored,         \* process_audio has returned an error
    unsent,              \* segments of 800 samples or more the VAD returned
                         \* and for which transcription_sender.send never ran
    tx_send_failed,      \* transcription_sender.send has returned an error
    vad_dirty,           \* the VAD was fed after it was last flushed
    recv_at_stop,        \* chunks sent before is_recording went false
    \* generate_meeting_summary
    provider,            \* the LLM provider
    text_chars,          \* text.chars().count() of the transcript
    token_threshold,     \* token limit for single-pass processing
    summary_path,        \* the strategy the call has taken
    \* the text functions of summary/processor.rs
    text,                \* the argument, a sequence of characters
    text_op,             \* the function that was applied to it
    text_out,            \* what the function returned
    \* a run of SummaryService::process_transcript_background
    svc_pc,              \* where the run is
    model_provider,      \* the provider name the run was given
    api_key,             \* what the key lookup returned
    metadata,            \* what the metadata fetch returned
    chunks_left,         \* chunks the loop has not asked a summary for yet
    chunk_summaries,     \* chunk_summaries.len()
    successful_chunk_count,
    llm_requests,        \* the generate_summary requests made, in order
    final_markdown,      \* what generate_meeting_summary returned
    title_updates,       \* names given to update_meeting_title, in order
    status_updates,      \* update_process_failed / update_process_completed
                         \* calls, in order
    \* audio/ffmpeg.rs
    ffmpeg_state,        \* FFMPEG_STATE
    ff_pc,               \* where each caller of initialize_ffmpeg is
    ff_path,             \* the path each caller's search found
    ff_returned,         \* what initialize_ffmpeg returned to each caller
    ff_searches,         \* runs of find_ffmpeg_path_internal so far
    ff_writer,           \* the caller that holds FFMPEG_STATE's write lock, or 0
    ff_probes,           \* is_ffmpeg_ready / get_ffmpeg_path calls and what
                         \* they returned, in order
    \* summary/prompts.rs
    prompt_language,     \* the language code the prompts are asked for
    prompts,             \* what each getter returned, "" before it is called
    \* audio/devices/fallback.rs
    default_mic,         \* default_input_device().ok(): a device name or "None"
    default_speaker,     \* default_output_device().ok(): a device name or "None"
    safe_devices,        \* what get_safe_recording_devices returned
    \* audio/capture/system.rs
    sample_format,       \* config.sample_format() of the loopback stream
    sample,              \* one sample of the callback's data
    f32_data             \* the converted sample sent on, or "none"

stateVars == <<is_recording, state_sender, clock, errors>>
capVars == <<sample_rate, resampler, resampler_input_buffer, recording_sender,
            chunk_counter, callbacks, early_returns, saver_sink, buffered_in>>
mixVars == <<mic_buf, sys_buf, popped>>
vadVars == <<vad_open, vad_seq>>
pipeVars == <<pipe_pc, cur_ts, processed_chunks, chunk_id_counter, has_rec_sender>>
sinkVars == <<tx_open, transcription_sink, recording_sink>>
mgrVars == <<mgr_sender, mgr_handle, mgr_started, mgr_pc, mgr_op, mgr_calls, mgr_trace>>
obsVars == <<received, reserved_received, handled, vad_fed, vad_errored, unsent,
            tx_send_failed, vad_dirty, recv_at_stop>>

summaryVars == <<provider, text_chars, token_threshold, summary_path>>
textVars == <<text, text_op, text_out>>

audioVars == <<stateVars, capVars, queue, mixVars, vadVars, pipeVars, sinkVars,
              mgrVars, obsVars>>
\* everything outside the audio side
serviceVars == <<svc_pc, model_provider, api_key, metadata, chunks_left,
                chunk_summaries, successful_chunk_count, llm_requests,
                final_markdown, title_updates, status_updates>>
ffmpegVars == <<ffmpeg_state, ff_pc, ff_path, ff_returned, ff_searches, ff_writer,
               ff_probes>>

promptVars == <<prompt_language, prompts>>
deviceVars == <<default_mic, default_speaker, safe_devices>>
loopbackVars == <<sample_format, sample, f32_data>>
hostVars == <<promptVars, deviceVars, loopbackVars>>

offlineVars == <<summaryVars, textVars, serviceVars, ffmpegVars, hostVars>>

vars == <<audioVars, offlineVars>>

\* ------------------------------------------------------------------ helpers
RECURSIVE SeqSum(_)
SeqSum(s) == IF s = <<>> THEN 0 ELSE Head(s) + SeqSum(Tail(s))

Range(s) == {s[i] : i \in 1..Len(s)}

\* the receiver half of the input channel lives in the pipeline task
rx_alive == pipe_pc \notin {"none", "done"}

Min(a, b) == IF a < b THEN a ELSE b

\* ------------------------------------------------------------------- text
\* Error messages are strings; Chars gives the characters of each message
\* and of each pattern the code searches for.
Chars ==
    ("The requested device is no longer available" :>
        <<"T", "h", "e", " ", "r", "e", "q", "u", "e", "s", "t", "e", "d", " ", "d", "e",
        "v", "i", "c", "e", " ", "i", "s", " ", "n", "o", " ", "l", "o", "n", "g", "e", "r",
        " ", "a", "v", "a", "i", "l", "a", "b", "l", "e">>) @@
    ("Device not found" :>
        <<"D", "e", "v", "i", "c", "e", " ", "n", "o", "t", " ", "f", "o", "u", "n", "d">>) @@
    ("file not found" :>
        <<"f", "i", "l", "e", " ", "n", "o", "t", " ", "f", "o", "u", "n", "d">>) @@
    ("device disconnected: permission denied" :>
        <<"d", "e", "v", "i", "c", "e", " ", "d", "i", "s", "c", "o", "n", "n", "e", "c",
        "t", "e", "d", ":", " ", "p", "e", "r", "m", "i", "s", "s", "i", "o", "n", " ", "d",
        "e", "n", "i", "e", "d">>) @@
    ("Permission denied" :>
        <<"P", "e", "r", "m", "i", "s", "s", "i", "o", "n", " ", "d", "e", "n", "i", "e",
        "d">>) @@
    ("access denied" :>
        <<"a", "c", "c", "e", "s", "s", " ", "d", "e", "n", "i", "e", "d">>) @@
    ("channel closed" :>
        <<"c", "h", "a", "n", "n", "e", "l", " ", "c", "l", "o", "s", "e", "d">>) @@
    ("stream failed" :>
        <<"s", "t", "r", "e", "a", "m", " ", "f", "a", "i", "l", "e", "d">>) @@
    ("backend error" :>
        <<"b", "a", "c", "k", "e", "n", "d", " ", "e", "r", "r", "o", "r">>) @@
    ("no such device" :>
        <<"n", "o", " ", "s", "u", "c", "h", " ", "d", "e", "v", "i", "c", "e">>) @@
    ("device removed" :>
        <<"d", "e", "v", "i", "c", "e", " ", "r", "e", "m", "o", "v", "e", "d">>) @@
    ("resource unavailable" :>
        <<"r", "e", "s", "o", "u", "r", "c", "e", " ", "u", "n", "a", "v", "a", "i", "l",
        "a", "b", "l", "e">>) @@
    ("Audio pipeline not ready" :>
        <<"A", "u", "d", "i", "o", " ", "p", "i", "p", "e", "l", "i", "n", "e", " ", "n",
        "o", "t", " ", "r", "e", "a", "d", "y">>) @@
    ("Audio pipeline not ready: channel closed" :>
        <<"A", "u", "d", "i", "o", " ", "p", "i", "p", "e", "l", "i", "n", "e", " ", "n",
        "o", "t", " ", "r", "e", "a", "d", "y", ":", " ", "c", "h", "a", "n", "n", "e", "l",
        " ", "c", "l", "o", "s", "e", "d">>) @@
    ("channel closed: buffer full" :>
        <<"c", "h", "a", "n", "n", "e", "l", " ", "c", "l", "o", "s", "e", "d", ":", " ",
        "b", "u", "f", "f", "e", "r", " ", "f", "u", "l", "l">>) @@
    ("buffer full" :>
        <<"b", "u", "f", "f", "e", "r", " ", "f", "u", "l", "l">>) @@
    ("Channel Closed" :>
        <<"C", "h", "a", "n", "n", "e", "l", " ", "C", "l", "o", "s", "e", "d">>) @@
    ("send failed" :>
        <<"s", "e", "n", "d", " ", "f", "a", "i", "l", "e", "d">>) @@
    ("device is no longer available" :>
        <<"d", "e", "v", "i", "c", "e", " ", "i", "s", " ", "n", "o", " ", "l", "o", "n",
        "g", "e", "r", " ", "a", "v", "a", "i", "l", "a", "b", "l", "e">>) @@
    ("device not found" :>
        <<"d", "e", "v", "i", "c", "e", " ", "n", "o", "t", " ", "f", "o", "u", "n", "d">>) @@
    ("device disconnected" :>
        <<"d", "e", "v", "i", "c", "e", " ", "d", "i", "s", "c", "o", "n", "n", "e", "c",
        "t", "e", "d">>) @@
    ("device unavailable" :>
        <<"d", "e", "v", "i", "c", "e", " ", "u", "n", "a", "v", "a", "i", "l", "a", "b",
        "l", "e">>) @@
    ("permission" :>
        <<"p", "e", "r", "m", "i", "s", "s", "i", "o", "n">>) @@
    ("stream" :>
        <<"s", "t", "r", "e", "a", "m">>) @@
    ("failed" :>
        <<"f", "a", "i", "l", "e", "d">>) @@
    ("full" :>
        <<"f", "u", "l", "l">>) @@
    ("no longer available" :>
        <<"n", "o", " ", "l", "o", "n", "g", "e", "r", " ", "a", "v", "a", "i", "l", "a",
        "b", "l", "e">>) @@
    ("not found" :>
        <<"n", "o", "t", " ", "f", "o", "u", "n", "d">>) @@
    ("disconnected" :>
        <<"d", "i", "s", "c", "o", "n", "n", "e", "c", "t", "e", "d">>) @@
    ("removed" :>
        <<"r", "e", "m", "o", "v", "e", "d">>) @@
    ("unavailable" :>
        <<"u", "n", "a", "v", "a", "i", "l", "a", "b", "l", "e">>)

\* char::to_lowercase on the letters that occur
LowerOf ==
    ("A" :> "a") @@ ("C" :> "c") @@ ("D" :> "d") @@ ("P" :> "p") @@ ("T" :> "t")
    @@ ("G" :> "g") @@ ("O" :> "o") @@ ("Q" :> "q") @@ ("R" :> "r")

\* str::to_lowercase
ToLowercase(cs) ==
    [i \in 1..Len(cs) |-> IF cs[i] \in DOMAIN LowerOf THEN LowerOf[cs[i]] ELSE cs[i]]

\* str::contains(pattern), on character sequences
Contains(cs, pat) ==
    \E i \in 0..(Len(cs) - Len(pat)) : SubSeq(cs, i + 1, i + Len(pat)) = pat

\* what cpal::StreamError displays as: disconnects, permission problems, a
\* closed channel, failures, and texts that only resemble them
StreamErrorMessages ==
    {"The requested device is no longer available",
     "Device not found",
     "file not found",
     "device disconnected: permission denied",
     "Permission denied",
     "access denied",
     "channel closed",
     "stream failed",
     "backend error",
     "no such device",
     "device removed",
     "resource unavailable"}

\* what the error of RecordingState::send_audio_chunk displays as
SendErrorMessages ==
    {"Audio pipeline not ready",
     "Audio pipeline not ready: channel closed",
     "channel closed",
     "channel closed: buffer full",
     "buffer full",
     "Channel Closed",
     "send failed"}

\* ------------------------------------------------- RecordingState (contract)
\* RecordingState::send_audio_chunk: fails with "Audio pipeline not ready"
\* while no sender is registered, with "channel closed" once the receiver is
\* gone, and otherwise appends the chunk to the input channel.
SendAudioChunkResult ==
    IF ~state_sender THEN "not_ready"
    ELSE IF ~rx_alive THEN "closed"
    ELSE "ok"

\* The session is stopped: is_recording goes false (terminal for the
\* session) and audio_sender is cleared.
StopRecording ==
    /\ is_recording
    /\ is_recording' = FALSE
    /\ state_sender' = FALSE
    /\ recv_at_stop' = received + Len(queue)
    /\ UNCHANGED <<offlineVars, clock, errors, capVars, queue, mixVars, vadVars, pipeVars, sinkVars,
                   mgrVars, received, reserved_received, handled, vad_fed, vad_errored,
                   unsent, tx_send_failed, vad_dirty>>

\* ------------------------------------------------------------ sink receivers
CloseTranscription ==
    /\ tx_open
    /\ tx_open' = FALSE
    /\ UNCHANGED <<offlineVars, stateVars, capVars, queue, mixVars, vadVars, pipeVars,
                   transcription_sink, recording_sink, mgrVars, obsVars>>

\* ------------------------------------------------------------- AudioCapture
\* let needs_resampling = sample_rate != TARGET_SAMPLE_RATE
NeedsResampling(src) == sample_rate[src] # TARGET_SAMPLE_RATE

\* samples that come out of resampling n samples from the device rate
ResampledLen(src, n) == (n * TARGET_SAMPLE_RATE) \div sample_rate[src]

\* the audio of a callback on a device that already runs at 48 kHz
Unresampled(src, n) ==
    [buffer |-> resampler_input_buffer[src], failed |-> FALSE, outcome |-> "direct",
     data |-> n, origin |-> <<>>]

\* The resampling stage of process_audio_data for n input samples, when
\* resampler.process fails on block fail_at of this call (0: on none).
\* Input samples are numbered in capture order; origin lists the ranges of
\* input samples the output was computed from.
Resample(src, n, fail_at) ==
    LET held == resampler_input_buffer[src] + n
        base == buffered_in[src] + n - held
        complete == held \div RESAMPLER_CHUNK_SIZE
        failed == resampler[src] /\ fail_at \in 1..complete
        drained == IF ~resampler[src] THEN 0
                   ELSE IF failed THEN fail_at ELSE complete
        processed == IF failed THEN fail_at - 1 ELSE drained
        used_persistent_resampler == resampler[src] /\ ~failed
        has_resampled_output == processed > 0
    IN [buffer |-> held - drained * RESAMPLER_CHUNK_SIZE,
        failed |-> failed,
        outcome |-> IF has_resampled_output THEN "persistent"
                    ELSE IF ~used_persistent_resampler THEN "fallback"
                    ELSE "buffering",
        data |-> IF has_resampled_output
                 THEN processed * ResampledLen(src, RESAMPLER_CHUNK_SIZE)
                 ELSE ResampledLen(src, n),
        origin |-> IF has_resampled_output
                   THEN [i \in 1..processed |->
                            <<base + (i - 1) * RESAMPLER_CHUNK_SIZE + 1,
                              base + i * RESAMPLER_CHUNK_SIZE>>]
                   ELSE << <<buffered_in[src] + 1, buffered_in[src] + n>> >>]

\* variant: the chunk is labelled with the device's rate
ChunkSampleRate_DeviceRate(src) == sample_rate[src]

\* sample_rate: if self.needs_resampling { 48000 } else { self.sample_rate }
ChunkSampleRate(src) ==
    IF NeedsResampling(src) THEN 48000 ELSE sample_rate[src]

\* variant: the counter is read and not advanced
FetchAdd_Keep(c) == c

\* chunk_counter.fetch_add(1)
FetchAdd(c) == (c + 1) % (U64_MAX + 1)

\* variant: "full" is looked for before "channel closed"
SendErrorReport_FullFirst(msg) ==
    LET e == Chars[msg]
    IN IF Contains(e, Chars["Audio pipeline not ready"]) THEN <<>>
       ELSE IF Contains(e, Chars["full"]) THEN <<"BufferOverflow">>
       ELSE IF Contains(e, Chars["channel closed"]) THEN <<"ChannelClosed">>
       ELSE <<"ProcessingFailed">>

\* the errors process_audio_data reports for a failed send_audio_chunk
SendErrorReport(msg) ==
    LET e == Chars[msg]
    IN IF Contains(e, Chars["Audio pipeline not ready"]) THEN <<>>
       ELSE IF Contains(e, Chars["channel closed"]) THEN <<"ChannelClosed">>
       ELSE IF Contains(e, Chars["full"]) THEN <<"BufferOverflow">>
       ELSE <<"ProcessingFailed">>

\* the messages send_audio_chunk can fail with in the current state
SendAudioChunkErrors ==
    IF SendAudioChunkResult = "not_ready" THEN {"Audio pipeline not ready"}
    ELSE IF SendAudioChunkResult = "closed"
         THEN SendErrorMessages \ {"Audio pipeline not ready"}
    ELSE {}

ErrorRecord(e, msg, by) == [error |-> e, cause |-> msg, by |-> by]

\* variant: the callback does not look at the recording flag
StillRecording_Always == TRUE

\* self.state.is_recording()
StillRecording == is_recording

\* process_audio_data(data) while the session is not recording:
\* if !self.state.is_recording() { return; }
ProcessAudioDataStopped(src, n) ==
    /\ ~StillRecording
    /\ early_returns < MaxEarlyReturns
    /\ early_returns' = early_returns + 1
    /\ UNCHANGED <<offlineVars, stateVars, sample_rate, resampler,
                   resampler_input_buffer, recording_sender, chunk_counter,
                   callbacks, saver_sink, buffered_in, queue, mixVars, vadVars,
                   pipeVars, sinkVars, mgrVars, obsVars>>

\* process_audio_data(data) with n mono samples, past the is_recording
\* check: resampling (and the early return while the buffer fills), the
\* fetch_add on the chunk counter, the timestamp read, the send to the
\* recording saver, state.send_audio_chunk and the error report.
\* The recording clock has advanced since the previous callback read it.
ProcessAudioData(src, n) ==
    /\ StillRecording
    /\ callbacks < MaxCallbacks
    /\ callbacks' = callbacks + 1
    /\ \E fail_at \in IF NeedsResampling(src) THEN 0..2 ELSE {0} :
        LET r == IF NeedsResampling(src) THEN Resample(src, n, fail_at)
                 ELSE Unresampled(src, n)
            chunk == [data |-> r.data, sample_rate |-> ChunkSampleRate(src),
                      timestamp |-> clock + 1, chunk_id |-> chunk_counter[src],
                      device_type |-> src, origin |-> r.origin,
                      path |-> r.outcome, resampler_failed |-> r.failed]
        IN /\ resampler_input_buffer' = [resampler_input_buffer EXCEPT ![src] = r.buffer]
           /\ buffered_in' = IF NeedsResampling(src)
                             THEN [buffered_in EXCEPT ![src] = @ + n]
                             ELSE buffered_in
           /\ IF r.outcome = "buffering"
              THEN UNCHANGED <<clock, chunk_counter, saver_sink, queue, errors>>
              ELSE /\ clock' = clock + 1
                   /\ chunk_counter' = [chunk_counter EXCEPT ![src] = FetchAdd(@)]
                   /\ saver_sink' = IF recording_sender
                                    THEN Append(saver_sink, chunk) ELSE saver_sink
                   /\ IF SendAudioChunkResult = "ok"
                      THEN /\ queue' = Append(queue, chunk)
                           /\ UNCHANGED errors
                      ELSE /\ UNCHANGED queue
                           /\ \E msg \in SendAudioChunkErrors :
                                errors' = errors \o
                                    [i \in 1..Len(SendErrorReport(msg)) |->
                                        ErrorRecord(SendErrorReport(msg)[i], msg,
                                                    "process_audio_data")]
    /\ UNCHANGED <<offlineVars, is_recording, state_sender, sample_rate, resampler,
                   recording_sender, early_returns, mixVars, vadVars, pipeVars,
                   sinkVars, mgrVars, obsVars>>

DisconnectPatterns ==
    {"device is no longer available", "device not found", "device disconnected",
     "no such device", "device unavailable", "device removed"}

\* variant: the disconnect patterns without the word "device"
ClassifyStreamError_ShortPatterns(msg) ==
    LET error_str == ToLowercase(Chars[msg])
    IN IF \E p \in {"no longer available", "not found", "disconnected",
                    "no such device", "removed", "unavailable"} :
             Contains(error_str, Chars[p])
       THEN "DeviceDisconnected"
       ELSE IF \/ Contains(error_str, Chars["permission"])
               \/ Contains(error_str, Chars["access denied"])
       THEN "PermissionDenied"
       ELSE IF Contains(error_str, Chars["channel closed"]) THEN "ChannelClosed"
       ELSE "StreamFailed"

\* variant: the permission test comes before the disconnect test
ClassifyStreamError_PermissionFirst(msg) ==
    LET error_str == ToLowercase(Chars[msg])
    IN IF \/ Contains(error_str, Chars["permission"])
          \/ Contains(error_str, Chars["access denied"])
       THEN "PermissionDenied"
       ELSE IF \E p \in DisconnectPatterns : Contains(error_str, Chars[p])
       THEN "DeviceDisconnected"
       ELSE IF Contains(error_str, Chars["channel closed"]) THEN "ChannelClosed"
       ELSE "StreamFailed"

\* the AudioError handle_stream_error derives from the error's message
ClassifyStreamError(msg) ==
    LET error_str == ToLowercase(Chars[msg])
    IN IF \E p \in DisconnectPatterns : Contains(error_str, Chars[p])
       THEN "DeviceDisconnected"
       ELSE IF \/ Contains(error_str, Chars["permission"])
               \/ Contains(error_str, Chars["access denied"])
       THEN "PermissionDenied"
       ELSE IF Contains(error_str, Chars["channel closed"]) THEN "ChannelClosed"
       ELSE IF /\ Contains(error_str, Chars["stream"])
               /\ Contains(error_str, Chars["failed"])
       THEN "StreamFailed"
       ELSE "StreamFailed"

\* handle_stream_error(error): classify and report
HandleStreamError(msg) ==
    /\ Len(errors) < MaxStreamErrors
    /\ errors' = Append(errors, ErrorRecord(ClassifyStreamError(msg), msg,
                                            "handle_stream_error"))
    /\ UNCHANGED <<offlineVars, is_recording, state_sender, clock, capVars, queue, mixVars,
                   vadVars, pipeVars, sinkVars, mgrVars, obsVars>>

\* the pipeline task ends abnormally (stop() sees handle.await fail): its
\* receiver is dropped while RecordingState still holds a sender
PipelineTaskFailed ==
    /\ pipe_pc = "check"
    /\ pipe_pc' = "done"
    /\ UNCHANGED <<offlineVars, stateVars, capVars, queue, mixVars, vadVars, cur_ts,
                   processed_chunks, chunk_id_counter, has_rec_sender, sinkVars,
                   mgrVars, obsVars>>

\* ------------------------------------------------ FFmpegAudioMixer (contract)
SourceReady(buf) == buf >= WINDOW_SAMPLES

\* has_data_ready(): a source holds a full window and its partner is ready
\* or has exceeded its timeout
HasDataReady(mic, sys, timed_out) ==
    \/ SourceReady(mic) /\ (SourceReady(sys) \/ timed_out)
    \/ SourceReady(sys) /\ (SourceReady(mic) \/ timed_out)

\* pop_mixed(): one window leaves every ready source; silence stands in for
\* a source that is not ready
PopMixed(buf) == IF SourceReady(buf) THEN buf - WINDOW_SAMPLES ELSE buf

\* ------------------------------------------ ContinuousVadProcessor (contract)
SegSeqs(k) == UNION {[1..m -> SegLens] : m \in 0..Min(k, 2)}

MkSegs(lens, base) == [i \in 1..Len(lens) |-> [seg |-> base + i, len |-> lens[i]]]

\* process_audio(window): an error, or zero or more completed segments; the
\* VAD may be left holding an in-progress segment
VadProcessOutcomes ==
    {[ok |-> FALSE, lens |-> <<>>, open |-> vad_open]}
    \cup {r \in [ok : {TRUE}, lens : SegSeqs(MaxSegments - vad_seq - 1),
                  open : BOOLEAN] :
            r.open => vad_seq + Len(r.lens) < MaxSegments}

\* flush(): an error, or the in-progress segment if there is one; the state
\* is reset
VadFlushOutcomes ==
    {[ok |-> FALSE, lens |-> <<>>, open |-> vad_open]}
    \cup (IF vad_open
          THEN {[ok |-> TRUE, lens |-> <<l>>, open |-> FALSE] : l \in SegLens}
          ELSE {[ok |-> TRUE, lens |-> <<>>, open |-> FALSE]})

\* ------------------------------------------------------------ AudioPipeline
\* variant: the comparison uses the top ten ids only
IsFlushSignal_TopTen(chunk_id) == chunk_id >= U64_MAX - 9

\* variant: only u64::MAX itself is a flush signal
IsFlushSignal_OnlyMax(chunk_id) == chunk_id = U64_MAX

\* chunk.chunk_id >= u64::MAX - 10
IsFlushSignal(chunk_id) == chunk_id >= U64_MAX - FLUSH_SIGNAL_MARGIN

\* the top ten chunk ids, which the interface reserves for flush signals
ReservedId(chunk_id) == chunk_id >= U64_MAX - 9

\* if segment.samples.len() >= 800 (run loop)
SegmentLongEnough(len) == len >= MIN_SEGMENT_SAMPLES

\* variant: the flush path sends every non-empty segment
FinalSegmentLongEnough_NonEmpty(len) == len > 0

\* if segment.samples.len() >= 800 (flush_remaining_audio)
FinalSegmentLongEnough(len) == len >= MIN_FINAL_SEGMENT_SAMPLES

\* the chunk built for a VAD segment in the run loop
TranscriptionChunk(s, id) ==
    [data |-> s.len, sample_rate |-> TRANSCRIPTION_SAMPLE_RATE, chunk_id |-> id,
     device_type |-> "Microphone", seg |-> s.seg, via |-> "run"]

\* the chunk built for a flushed segment
FinalTranscriptionChunk(s, id) ==
    [data |-> s.len, sample_rate |-> TRANSCRIPTION_SAMPLE_RATE, chunk_id |-> id,
     device_type |-> "Microphone", seg |-> s.seg, via |-> "flush"]

\* variant: the window is tagged as system audio
RecordingChunk_System(win, ts, id) ==
    [data |-> WINDOW_SAMPLES, timestamp |-> ts, chunk_id |-> id,
     device_type |-> "System", win |-> win]

\* the chunk built for a mixed window
RecordingChunk(win, ts, id) ==
    [data |-> WINDOW_SAMPLES, timestamp |-> ts, chunk_id |-> id,
     device_type |-> "Microphone", win |-> win]

\* variant: STEP 4 sits inside the Ok arm of the VAD match
SendForRecording_OnlyOnOk(res, win, ts, id) ==
    IF has_rec_sender /\ res.ok
    THEN Append(recording_sink, [data |-> WINDOW_SAMPLES, timestamp |-> ts,
                                 chunk_id |-> id, device_type |-> "Microphone",
                                 win |-> win])
    ELSE recording_sink

\* STEP 4 of the run loop: the window is sent for recording when a sender
\* is configured, whatever the VAD call returned (res)
SendForRecording(res, win, ts, id) ==
    IF has_rec_sender
    THEN Append(recording_sink, RecordingChunk(win, ts, id))
    ELSE recording_sink

\* variant: the id is consumed whether or not the send succeeds
RECURSIVE SendVadSegments_CountsFailed(_, _)
SendVadSegments_CountsFailed(segs, st) ==
    IF segs = <<>> THEN st
    ELSE LET s == Head(segs)
             st1 == IF s.len >= MIN_SEGMENT_SAMPLES
                    THEN IF tx_open
                         THEN [st EXCEPT !.sink = Append(@, [data |-> s.len,
                                              sample_rate |-> TRANSCRIPTION_SAMPLE_RATE,
                                              chunk_id |-> st.counter,
                                              device_type |-> "Microphone",
                                              seg |-> s.seg, via |-> "run"]),
                                         !.counter = @ + 1,
                                         !.sends = @ \cup {s.seg}]
                         ELSE [st EXCEPT !.counter = @ + 1,
                                         !.sends = @ \cup {s.seg},
                                         !.failed = TRUE]
                    ELSE st
         IN SendVadSegments_CountsFailed(Tail(segs), st1)

\* for segment in speech_segments { ... } of the run loop;
\* st = [sink, counter, sends, failed]
RECURSIVE SendVadSegments(_, _)
SendVadSegments(segs, st) ==
    IF segs = <<>> THEN st
    ELSE LET s == Head(segs)
             st1 == IF SegmentLongEnough(s.len)
                    THEN IF tx_open
                         THEN [st EXCEPT !.sink = Append(@, TranscriptionChunk(s, st.counter)),
                                         !.counter = @ + 1,
                                         !.sends = @ \cup {s.seg}]
                         ELSE [st EXCEPT !.sends = @ \cup {s.seg},
                                         !.failed = TRUE]
                    ELSE st
         IN SendVadSegments(Tail(segs), st1)

\* for segment in final_segments { ... } of flush_remaining_audio
RECURSIVE SendFinalSegments(_, _)
SendFinalSegments(segs, st) ==
    IF segs = <<>> THEN st
    ELSE LET s == Head(segs)
             st1 == IF FinalSegmentLongEnough(s.len)
                    THEN IF tx_open
                         THEN [st EXCEPT !.sink = Append(@, FinalTranscriptionChunk(s, st.counter)),
                                         !.counter = @ + 1,
                                         !.sends = @ \cup {s.seg}]
                         ELSE [st EXCEPT !.sends = @ \cup {s.seg},
                                         !.failed = TRUE]
                    ELSE st
         IN SendFinalSegments(Tail(segs), st1)

\* the segments of 800 samples or more among segs that are not in sends
Unsent(segs, sends) ==
    {segs[i].seg : i \in {j \in 1..Len(segs) : segs[j].len >= 800}} \ sends

\* variant: the VAD keeps its in-progress segment after returning it
FlushRemainingAudio_NoReset(res) ==
    LET segs == MkSegs(res.lens, vad_seq)
        st0 == [sink |-> transcription_sink, counter |-> chunk_id_counter,
                sends |-> {}, failed |-> tx_send_failed]
        st == IF res.ok THEN SendFinalSegments(segs, st0) ELSE st0
    IN /\ transcription_sink' = st.sink
       /\ chunk_id_counter' = st.counter
       /\ unsent' = unsent \cup Unsent(segs, st.sends)
       /\ tx_send_failed' = st.failed
       /\ vad_open' = vad_open
       /\ vad_seq' = vad_seq
       /\ vad_dirty' = FALSE

\* flush_remaining_audio(), given the outcome of vad_processor.flush()
FlushRemainingAudio(res) ==
    LET segs == MkSegs(res.lens, vad_seq)
        st0 == [sink |-> transcription_sink, counter |-> chunk_id_counter,
                sends |-> {}, failed |-> tx_send_failed]
        st == IF res.ok THEN SendFinalSegments(segs, st0) ELSE st0
    IN /\ transcription_sink' = st.sink
       /\ chunk_id_counter' = st.counter
       /\ unsent' = unsent \cup Unsent(segs, st.sends)
       /\ tx_send_failed' = st.failed
       /\ vad_open' = res.open
       /\ vad_seq' = vad_seq + Len(segs)
       /\ vad_dirty' = FALSE

\* while self.state.is_recording(): the condition holds
PipeCheck ==
    /\ pipe_pc = "check"
    /\ is_recording
    /\ pipe_pc' = "recv"
    /\ UNCHANGED <<offlineVars, stateVars, capVars, queue, mixVars, vadVars, cur_ts,
                   processed_chunks, chunk_id_counter, has_rec_sender, sinkVars,
                   mgrVars, obsVars>>

\* variant: the task returns at the failed condition without the final flush
PipeExit_NoFlush ==
    /\ pipe_pc = "check"
    /\ ~is_recording
    /\ pipe_pc' = "done"
    /\ UNCHANGED <<offlineVars, stateVars, capVars, queue, mixVars, vadVars, cur_ts,
                   processed_chunks, chunk_id_counter, has_rec_sender, sinkVars,
                   mgrVars, obsVars>>

\* while self.state.is_recording(): the condition fails; the VAD is flushed
\* and the task returns
PipeExit ==
    /\ pipe_pc = "check"
    /\ ~is_recording
    /\ \E res \in VadFlushOutcomes : FlushRemainingAudio(res)
    /\ pipe_pc' = "done"
    /\ UNCHANGED <<offlineVars, stateVars, capVars, queue, mixVars, cur_ts, processed_chunks,
                   has_rec_sender, tx_open, recording_sink, mgrVars, received,
                   reserved_received, handled, vad_fed, vad_errored, recv_at_stop>>

\* Ok(Some(chunk)) with a flush signal: flush the VAD and continue
PipeRecvFlush ==
    /\ pipe_pc = "recv"
    /\ queue # <<>>
    /\ IsFlushSignal(Head(queue).chunk_id)
    /\ queue' = Tail(queue)
    /\ received' = received + 1
    /\ reserved_received' = reserved_received
                              + (IF ReservedId(Head(queue).chunk_id) THEN 1 ELSE 0)
    /\ handled' = handled \cup {[chunk_id |-> Head(queue).chunk_id, flush |-> TRUE]}
    /\ \E res \in VadFlushOutcomes : FlushRemainingAudio(res)
    /\ pipe_pc' = "check"
    /\ UNCHANGED <<offlineVars, stateVars, capVars, mixVars, cur_ts, processed_chunks,
                   has_rec_sender, tx_open, recording_sink, mgrVars, vad_fed,
                   vad_errored, recv_at_stop>>

\* Ok(Some(chunk)) with audio: count it and push it to the mixer
PipeRecvAudio ==
    /\ pipe_pc = "recv"
    /\ queue # <<>>
    /\ ~IsFlushSignal(Head(queue).chunk_id)
    /\ queue' = Tail(queue)
    /\ received' = received + 1
    /\ reserved_received' = reserved_received
                              + (IF ReservedId(Head(queue).chunk_id) THEN 1 ELSE 0)
    /\ handled' = handled \cup {[chunk_id |-> Head(queue).chunk_id, flush |-> FALSE]}
    /\ processed_chunks' = processed_chunks + 1
    /\ IF Head(queue).device_type = "Microphone"
       THEN mic_buf' = mic_buf + Head(queue).data /\ sys_buf' = sys_buf
       ELSE sys_buf' = sys_buf + Head(queue).data /\ mic_buf' = mic_buf
    /\ cur_ts' = Head(queue).timestamp
    /\ pipe_pc' = "drain"
    /\ UNCHANGED <<offlineVars, stateVars, capVars, popped, vadVars, chunk_id_counter,
                   has_rec_sender, sinkVars, mgrVars, vad_fed, vad_errored, unsent,
                   tx_send_failed, vad_dirty, recv_at_stop>>

\* one turn of while self.ffmpeg_mixer.has_data_ready(): a window is popped,
\* fed to the VAD, its segments are sent, and it is forwarded for recording
PipeDrainStep ==
    /\ pipe_pc = "drain"
    /\ \E timed_out \in BOOLEAN : HasDataReady(mic_buf, sys_buf, timed_out)
    /\ mic_buf' = PopMixed(mic_buf)
    /\ sys_buf' = PopMixed(sys_buf)
    /\ popped' = popped + 1
    /\ vad_fed' = Append(vad_fed, popped + 1)
    /\ vad_dirty' = TRUE
    /\ \E res \in VadProcessOutcomes :
         LET segs == MkSegs(res.lens, vad_seq)
             st0 == [sink |-> transcription_sink, counter |-> chunk_id_counter,
                     sends |-> {}, failed |-> tx_send_failed]
             st == IF res.ok THEN SendVadSegments(segs, st0) ELSE st0
         IN /\ transcription_sink' = st.sink
            /\ chunk_id_counter' = st.counter
            /\ unsent' = unsent \cup Unsent(segs, st.sends)
            /\ tx_send_failed' = st.failed
            /\ vad_errored' = (vad_errored \/ ~res.ok)
            /\ vad_open' = res.open
            /\ vad_seq' = vad_seq + Len(segs)
            /\ recording_sink' = SendForRecording(res, popped + 1, cur_ts, st.counter)
    /\ UNCHANGED <<offlineVars, stateVars, capVars, queue, pipe_pc, cur_ts, processed_chunks,
                   has_rec_sender, tx_open, mgrVars, received, reserved_received,
                   handled, recv_at_stop>>

\* has_data_ready() is false: the drain ends
PipeDrainEnd ==
    /\ pipe_pc = "drain"
    /\ \E timed_out \in BOOLEAN : ~HasDataReady(mic_buf, sys_buf, timed_out)
    /\ pipe_pc' = "check"
    /\ UNCHANGED <<offlineVars, stateVars, capVars, queue, mixVars, vadVars, cur_ts,
                   processed_chunks, chunk_id_counter, has_rec_sender, sinkVars,
                   mgrVars, obsVars>>

\* Ok(None): every sender is gone and the channel is empty; break, flush, return
PipeRecvNone ==
    /\ pipe_pc = "recv"
    /\ queue = <<>>
    /\ ~state_sender /\ ~mgr_sender
    /\ \E res \in VadFlushOutcomes : FlushRemainingAudio(res)
    /\ pipe_pc' = "done"
    /\ UNCHANGED <<offlineVars, stateVars, capVars, queue, mixVars, cur_ts, processed_chunks,
                   has_rec_sender, tx_open, recording_sink, mgrVars, received,
                   reserved_received, handled, vad_fed, vad_errored, recv_at_stop>>

\* variant: the receive has no timeout and goes on waiting
PipeTimeout_Blocks ==
    /\ pipe_pc = "recv"
    /\ queue = <<>>
    /\ state_sender \/ mgr_sender
    /\ pipe_pc' = "recv"
    /\ UNCHANGED <<offlineVars, stateVars, capVars, queue, mixVars, vadVars, cur_ts,
                   processed_chunks, chunk_id_counter, has_rec_sender, sinkVars,
                   mgrVars, obsVars>>

\* Err(_): the 50 ms timeout elapsed with nothing received
PipeTimeout ==
    /\ pipe_pc = "recv"
    /\ queue = <<>>
    /\ state_sender \/ mgr_sender
    /\ pipe_pc' = "check"
    /\ UNCHANGED <<offlineVars, stateVars, capVars, queue, mixVars, vadVars, cur_ts,
                   processed_chunks, chunk_id_counter, has_rec_sender, sinkVars,
                   mgrVars, obsVars>>

\* ----------------------------------------------------- AudioPipelineManager
FlushChunk(id) ==
    [data |-> 0, timestamp |-> 0, chunk_id |-> id, device_type |-> "Microphone"]

SendEvent(id, ok) == [ev |-> "send", arg |-> id, data |-> 0, ok |-> ok]
SleepEvent(ms) == [ev |-> "sleep", arg |-> ms, data |-> 0, ok |-> TRUE]
StopEvent == [ev |-> "stop", arg |-> 0, data |-> 0, ok |-> TRUE]

\* variant: the loop runs over 0..=3
AdditionalFlushIds_Inclusive == [i \in 1..ADDITIONAL_FLUSHES + 1 |-> U64_MAX - (i - 1)]

\* chunk_id: u64::MAX - (i as u64) for i in 0..3
AdditionalFlushIds == [i \in 1..ADDITIONAL_FLUSHES |-> U64_MAX - (i - 1)]

\* start(): the channel is created, its sender is registered in
\* RecordingState and kept, the pipeline task is spawned
Start ==
    /\ mgr_pc = "idle"
    /\ ~mgr_started
    /\ mgr_started' = TRUE
    /\ state_sender' = TRUE
    /\ mgr_sender' = TRUE
    /\ mgr_handle' = TRUE
    /\ pipe_pc' = "check"
    /\ \E r \in BOOLEAN : has_rec_sender' = r
    /\ UNCHANGED <<offlineVars, is_recording, clock, errors, capVars, queue, mixVars, vadVars, cur_ts,
                   processed_chunks, chunk_id_counter, sinkVars, mgr_pc, mgr_op,
                   mgr_calls, mgr_trace, obsVars>>

\* force_flush_and_stop() is called with a sender: the first flush signal is
\* sent and the 20 ms sleep begins
ForceFlushFirst ==
    /\ mgr_pc \in {"idle", "done"}
    /\ mgr_calls < MaxMgrCalls
    /\ mgr_sender
    /\ rx_alive
    /\ queue' = Append(queue, FlushChunk(U64_MAX))
    /\ mgr_trace' = <<SendEvent(U64_MAX, TRUE), SleepEvent(FIRST_SLEEP_MS)>>
    /\ mgr_pc' = "sleep1"
    /\ mgr_op' = "force_flush_and_stop"
    /\ mgr_calls' = mgr_calls + 1
    /\ UNCHANGED <<offlineVars, stateVars, capVars, mixVars, vadVars, pipeVars, sinkVars,
                   mgr_sender, mgr_handle, mgr_started, obsVars>>

\* force_flush_and_stop() is called with a sender and the first send fails
ForceFlushFirstFails ==
    /\ mgr_pc \in {"idle", "done"}
    /\ mgr_calls < MaxMgrCalls
    /\ mgr_sender
    /\ ~rx_alive
    /\ mgr_trace' = <<SendEvent(U64_MAX, FALSE)>>
    /\ mgr_pc' = "stop"
    /\ mgr_op' = "force_flush_and_stop"
    /\ mgr_calls' = mgr_calls + 1
    /\ UNCHANGED <<offlineVars, stateVars, capVars, queue, mixVars, vadVars, pipeVars, sinkVars,
                   mgr_sender, mgr_handle, mgr_started, obsVars>>

\* force_flush_and_stop() is called without a sender
ForceFlushNoSender ==
    /\ mgr_pc \in {"idle", "done"}
    /\ mgr_calls < MaxMgrCalls
    /\ ~mgr_sender
    /\ mgr_trace' = <<>>
    /\ mgr_pc' = "stop"
    /\ mgr_op' = "force_flush_and_stop"
    /\ mgr_calls' = mgr_calls + 1
    /\ UNCHANGED <<offlineVars, stateVars, capVars, queue, mixVars, vadVars, pipeVars, sinkVars,
                   mgr_sender, mgr_handle, mgr_started, obsVars>>

\* the 20 ms sleep is over: for i in 0..3 { let _ = sender.send(..); }, and
\* the 10 ms sleep begins
ForceFlushMore ==
    /\ mgr_pc = "sleep1"
    /\ queue' = IF rx_alive
                THEN queue \o [i \in 1..Len(AdditionalFlushIds) |->
                                  FlushChunk(AdditionalFlushIds[i])]
                ELSE queue
    /\ mgr_trace' = mgr_trace
                    \o [i \in 1..Len(AdditionalFlushIds) |->
                           SendEvent(AdditionalFlushIds[i], rx_alive)]
                    \o <<SleepEvent(SECOND_SLEEP_MS)>>
    /\ mgr_pc' = "sleep2"
    /\ UNCHANGED <<offlineVars, stateVars, capVars, mixVars, vadVars, pipeVars, sinkVars,
                   mgr_sender, mgr_handle, mgr_started, mgr_op, mgr_calls, obsVars>>

\* stop() is called on its own
StopCall ==
    /\ mgr_pc \in {"idle", "done"}
    /\ mgr_calls < MaxMgrCalls
    /\ mgr_trace' = <<>>
    /\ mgr_pc' = "stop"
    /\ mgr_op' = "stop"
    /\ mgr_calls' = mgr_calls + 1
    /\ UNCHANGED <<offlineVars, stateVars, capVars, queue, mixVars, vadVars, pipeVars, sinkVars,
                   mgr_sender, mgr_handle, mgr_started, obsVars>>

\* stop(): self.audio_sender = None, and the wait for the task begins
StopDropSender ==
    /\ mgr_pc \in {"stop", "sleep2"}
    /\ mgr_sender' = FALSE
    /\ mgr_trace' = Append(mgr_trace, StopEvent)
    /\ mgr_pc' = "join"
    /\ UNCHANGED <<offlineVars, stateVars, capVars, queue, mixVars, vadVars, pipeVars, sinkVars,
                   mgr_handle, mgr_started, mgr_op, mgr_calls, obsVars>>

\* stop(): handle.await completes (or there was no handle) and stop() returns
StopJoin ==
    /\ mgr_pc = "join"
    /\ mgr_handle => pipe_pc = "done"
    /\ mgr_handle' = FALSE
    /\ mgr_pc' = "done"
    /\ UNCHANGED <<offlineVars, stateVars, capVars, queue, mixVars, vadVars, pipeVars, sinkVars,
                   mgr_sender, mgr_started, mgr_op, mgr_calls, mgr_trace, obsVars>>

\* ------------------------------------------------------- summary/processor.rs
\* rough_token_count: (chars as f64 / 4.0).ceil()
RoughTokenCount(chars) ==
    IF chars % 4 = 0 THEN chars \div 4 ELSE chars \div 4 + 1

\* variant: single-pass up to and including the threshold
SelectStrategy_AtMost(p, total_tokens, threshold) ==
    IF p # "Ollama" \/ total_tokens <= threshold THEN "single-pass" ELSE "multi-level"

\* if provider != &LLMProvider::Ollama || total_tokens < token_threshold
SelectStrategy(p, total_tokens, threshold) ==
    IF p # "Ollama" \/ total_tokens < threshold THEN "single-pass" ELSE "multi-level"

\* generate_meeting_summary up to the choice of strategy
GenerateMeetingSummary ==
    /\ summary_path = "none"
    /\ summary_path' = SelectStrategy(provider, RoughTokenCount(text_chars),
                                      token_threshold)
    /\ UNCHANGED <<provider, text_chars, token_threshold, textVars, serviceVars,
                   ffmpegVars, hostVars, audioVars>>

\* no summary has been requested
NoSummary ==
    /\ provider = "Ollama"
    /\ text_chars = 0
    /\ token_threshold = DEFAULT_TOKEN_THRESHOLD
    /\ summary_path = "none"

\* -------------------------------------------- summary/processor.rs: chunk_text
\* char::is_whitespace, on the characters the texts are made of
IsWhitespace(c) == c \in {" ", "\n"}

\* chars[from..to]: positions count from 0 and `to` is excluded
Slice(chars, from, to) == SubSeq(chars, from + 1, to)

\* usize::saturating_sub
SaturatingSub(a, b) == IF a > b THEN a - b ELSE 0

Max(a, b) == IF a > b THEN a ELSE b

\* while boundary > current_pos && !chars[boundary].is_whitespace()
\*     { boundary -= 1; }
RECURSIVE WalkBack(_, _, _)
WalkBack(chars, current_pos, boundary) ==
    IF boundary > current_pos /\ ~IsWhitespace(chars[boundary + 1])
    THEN WalkBack(chars, current_pos, boundary - 1)
    ELSE boundary

\* the end of the chunk that starts at current_pos
ChunkEnd(chars, current_pos, chunk_size_chars) ==
    LET total_chars == Len(chars)
        end_pos == Min(current_pos + chunk_size_chars, total_chars)
        boundary == WalkBack(chars, current_pos, end_pos)
    IN IF end_pos < total_chars /\ boundary > current_pos
       THEN boundary
       ELSE end_pos

\* one chunk: the characters and, for observation, where they were taken from
Chunk(chars, from, to) ==
    [start |-> from, end |-> to, chars |-> Slice(chars, from, to)]

\* variant: the next chunk starts where the last one ended
RECURSIVE ChunkLoop_FromEnd(_, _, _, _, _)
ChunkLoop_FromEnd(chars, current_pos, chunk_size_chars, step, chunks) ==
    IF current_pos >= Len(chars) THEN chunks
    ELSE LET end_pos == ChunkEnd(chars, current_pos, chunk_size_chars)
             pushed == Append(chunks, Chunk(chars, current_pos, end_pos))
         IN IF end_pos = Len(chars) THEN pushed
            ELSE ChunkLoop_FromEnd(chars, end_pos, chunk_size_chars, step, pushed)

\* while current_pos < total_chars { ... current_pos += step; }
RECURSIVE ChunkLoop(_, _, _, _, _)
ChunkLoop(chars, current_pos, chunk_size_chars, step, chunks) ==
    IF current_pos >= Len(chars) THEN chunks
    ELSE LET end_pos == ChunkEnd(chars, current_pos, chunk_size_chars)
             pushed == Append(chunks, Chunk(chars, current_pos, end_pos))
         IN IF end_pos = Len(chars) THEN pushed
            ELSE ChunkLoop(chars, current_pos + step, chunk_size_chars, step, pushed)

\* variant: a text that fits one chunk is cut like any other
ChunkTextOf_NoEarlyReturn(chars, chunk_size_tokens, overlap_tokens) ==
    LET chunk_size_chars == chunk_size_tokens * 4
        overlap_chars == overlap_tokens * 4
        step == Max(SaturatingSub(chunk_size_chars, overlap_chars), 1)
    IN ChunkLoop(chars, 0, chunk_size_chars, step, <<>>)

\* chunk_text(text, chunk_size_tokens, overlap_tokens)
ChunkTextOf(chars, chunk_size_tokens, overlap_tokens) ==
    LET chunk_size_chars == chunk_size_tokens * 4
        overlap_chars == overlap_tokens * 4
        step == Max(SaturatingSub(chunk_size_chars, overlap_chars), 1)
    IN IF chars = <<>> \/ chunk_size_tokens = 0 THEN <<>>
       ELSE IF Len(chars) <= chunk_size_chars
            THEN <<Chunk(chars, 0, Len(chars))>>
            ELSE ChunkLoop(chars, 0, chunk_size_chars, step, <<>>)

\* a call of chunk_text on the text
ChunkText(chunk_size_tokens, overlap_tokens) ==
    /\ text_op = "none"
    /\ text_op' = "chunk_text"
    /\ text_out' = [chunk_size_tokens |-> chunk_size_tokens,
                    overlap_tokens |-> overlap_tokens,
                    chunks |-> ChunkTextOf(text, chunk_size_tokens, overlap_tokens)]
    /\ UNCHANGED <<text, summaryVars, serviceVars, ffmpegVars, hostVars, audioVars>>

\* ------------------------------ summary/processor.rs: clean_llm_markdown_output
THINK_OPEN == {<<"<", "t", "h", "i", "n", "k", ">">>,
               <<"<", "t", "h", "i", "n", "k", "i", "n", "g", ">">>}
THINK_CLOSE == {<<"<", "/", "t", "h", "i", "n", "k", ">">>,
                <<"<", "/", "t", "h", "i", "n", "k", "i", "n", "g", ">">>}
PREFIXES == <<FENCE \o <<"m", "a", "r", "k", "d", "o", "w", "n", "\n">>,
              FENCE \o <<"\n">>>>
SUFFIX == FENCE

\* pat is in cs at position i, positions counting from 1
MatchesAt(cs, i, pat) ==
    /\ i >= 1
    /\ i + Len(pat) - 1 <= Len(cs)
    /\ SubSeq(cs, i, i + Len(pat) - 1) = pat

StartsWith(cs, pat) == MatchesAt(cs, 1, pat)
EndsWith(cs, pat) == MatchesAt(cs, Len(cs) - Len(pat) + 1, pat)

\* str::trim_start, str::trim
RECURSIVE TrimStart(_)
TrimStart(cs) ==
    IF cs # <<>> /\ IsWhitespace(Head(cs)) THEN TrimStart(Tail(cs)) ELSE cs

RECURSIVE TrimEnd(_)
TrimEnd(cs) ==
    IF cs # <<>> /\ IsWhitespace(cs[Len(cs)])
    THEN TrimEnd(SubSeq(cs, 1, Len(cs) - 1))
    ELSE cs

Trim(cs) == TrimEnd(TrimStart(cs))

\* where a closing tag starts at or after position from
ClosePositions(cs, from) ==
    {j \in from..Len(cs) : \E c \in THINK_CLOSE : MatchesAt(cs, j, c)}

\* where (?s)<think(?:ing)?>.*?</think(?:ing)?> matches: an opening tag with a
\* closing tag somewhere after it
MatchStarts(cs) ==
    {i \in 1..Len(cs) :
        \E o \in THINK_OPEN :
            MatchesAt(cs, i, o) /\ ClosePositions(cs, i + Len(o)) # {}}

Least(S) == CHOOSE x \in S : \A y \in S : x <= y

\* re.replace_all(markdown, ""): the leftmost match, which ends with the first
\* closing tag after its opening tag, is removed and the search goes on behind
\* it
RECURSIVE RemoveThinking(_)
RemoveThinking(cs) ==
    IF MatchStarts(cs) = {} THEN cs
    ELSE LET i == Least(MatchStarts(cs))
             o == CHOOSE t \in THINK_OPEN : MatchesAt(cs, i, t)
             j == Least(ClosePositions(cs, i + Len(o)))
             c == CHOOSE t \in THINK_CLOSE : MatchesAt(cs, j, t)
         IN SubSeq(cs, 1, i - 1)
            \o RemoveThinking(SubSeq(cs, j + Len(c), Len(cs)))

\* the prefixes from position n on, tried in order
RECURSIVE StripFences(_, _)
StripFences(trimmed, n) ==
    IF n > Len(PREFIXES) THEN trimmed
    ELSE IF StartsWith(trimmed, PREFIXES[n]) /\ EndsWith(trimmed, SUFFIX)
         THEN Trim(Slice(trimmed, Len(PREFIXES[n]), Len(trimmed) - Len(SUFFIX)))
         ELSE StripFences(trimmed, n + 1)

\* clean_llm_markdown_output(markdown)
CleanLlmMarkdownOutputOf(markdown) ==
    StripFences(Trim(RemoveThinking(markdown)), 1)

\* a call of clean_llm_markdown_output on the text
CleanLlmMarkdownOutput ==
    /\ text_op = "none"
    /\ text_op' = "clean"
    /\ text_out' = [cleaned |-> CleanLlmMarkdownOutputOf(text)]
    /\ UNCHANGED <<text, summaryVars, serviceVars, ffmpegVars, hostVars, audioVars>>

\* a call of clean_llm_markdown_output on what the first call returned
CleanLlmMarkdownOutputAgain ==
    /\ text_op = "clean"
    /\ text_op' = "clean again"
    /\ text_out' = [cleaned |-> text_out.cleaned,
                    again |-> CleanLlmMarkdownOutputOf(text_out.cleaned)]
    /\ UNCHANGED <<text, summaryVars, serviceVars, ffmpegVars, hostVars, audioVars>>

\* no text function has been called
NoText ==
    /\ text = <<>>
    /\ text_op = "none"
    /\ text_out = <<>>

\* ------------------------------------------------------ summary/llm_client.rs
\* LLMProvider::from_str: match s.to_lowercase().as_str()
FromStr(s) ==
    LET lower == ToLowercase(s)
    IN IF lower = <<"o", "p", "e", "n", "a", "i">> THEN "OpenAI"
       ELSE IF lower = <<"c", "l", "a", "u", "d", "e">> THEN "Claude"
       ELSE IF lower = <<"g", "r", "o", "q">> THEN "Groq"
       ELSE IF lower = <<"o", "l", "l", "a", "m", "a">> THEN "Ollama"
       ELSE IF lower = <<"o", "p", "e", "n", "r", "o", "u", "t", "e", "r">>
            THEN "OpenRouter"
       ELSE "Err"

\* --------------------------------------------------------- summary/service.rs
\* update_process_failed(pool, meeting_id, error_msg)
UpdateProcessFailed(error_msg) ==
    Append(status_updates, [status |-> "failed", error |-> error_msg,
                            markdown |-> <<>>, chunk_count |-> 0])

\* SummaryProcessesRepository::update_process_completed(pool, meeting_id,
\* result_json, num_chunks, duration)
UpdateProcessCompleted(markdown, num_chunks) ==
    Append(status_updates, [status |-> "completed", error |-> "",
                            markdown |-> markdown, chunk_count |-> num_chunks])

\* the run returns after update_process_failed
FailRun(error_msg) ==
    /\ status_updates' = UpdateProcessFailed(error_msg)
    /\ svc_pc' = "done"

\* let provider = match LLMProvider::from_str(&model_provider)
ParseProvider ==
    /\ svc_pc = "start"
    /\ IF FromStr(model_provider) = "Err"
       THEN /\ FailRun("Unsupported LLM provider")
            /\ UNCHANGED provider
       ELSE /\ provider' = FromStr(model_provider)
            /\ svc_pc' = "api_key"
            /\ UNCHANGED status_updates
    /\ UNCHANGED <<model_provider, api_key, metadata, chunks_left, chunk_summaries,
                   successful_chunk_count, llm_requests, final_markdown,
                   title_updates, text_chars, token_threshold, summary_path,
                   textVars, ffmpegVars, hostVars, audioVars>>

\* variant: OpenRouter needs no key either
KeyRequired_NotOpenRouter(p) == p \notin {"Ollama", "OpenRouter"}

\* if provider != LLMProvider::Ollama
KeyRequired(p) == p # "Ollama"

\* what SettingsRepository::get_api_key returns: Ok(Some(key)) with a key or
\* with an empty string, Ok(None), or Err
KeyLookups == {"key", "empty", "none", "error"}

\* let api_key = match SettingsRepository::get_api_key(...).await
GetApiKey(lookup) ==
    /\ svc_pc = "api_key"
    /\ api_key' = lookup
    /\ IF lookup = "key" THEN
            /\ svc_pc' = "threshold"
            /\ UNCHANGED status_updates
       ELSE IF lookup \in {"none", "empty"} THEN
            IF KeyRequired(provider)
            THEN FailRun("Api key not found")
            ELSE /\ svc_pc' = "threshold"
                 /\ UNCHANGED status_updates
       ELSE FailRun("Failed to retrieve api key")
    /\ UNCHANGED <<model_provider, metadata, chunks_left, chunk_summaries,
                   successful_chunk_count, llm_requests, final_markdown,
                   title_updates, summaryVars, textVars, ffmpegVars, hostVars, audioVars>>

\* usize arithmetic of a build without overflow checks
UsizeMul(a, b) == (a * b) % (2 ^ UsizeBits)
UsizeSub(a, b) == (a - b + 2 ^ UsizeBits) % (2 ^ UsizeBits)

\* variant: the overhead is taken off without saturation at zero
TokenThresholdOf_WrappingSub(p, fetched) ==
    IF p = "Ollama"
    THEN IF fetched.ok
         THEN UsizeSub(fetched.context_size, OVERHEAD_TOKENS)
         ELSE DEFAULT_TOKEN_THRESHOLD
    ELSE CLOUD_TOKEN_THRESHOLD

\* let token_threshold = if provider == LLMProvider::Ollama { ... } else { 100000 }
TokenThresholdOf(p, fetched) ==
    IF p = "Ollama"
    THEN IF fetched.ok
         THEN SaturatingSub(fetched.context_size, OVERHEAD_TOKENS)
         ELSE DEFAULT_TOKEN_THRESHOLD
    ELSE CLOUD_TOKEN_THRESHOLD

\* what METADATA_CACHE.get_or_fetch returns: the model's metadata or an error
MetadataFetches ==
    {[ok |-> TRUE, context_size |-> c] : c \in ContextSizes}
    \cup {[ok |-> FALSE, context_size |-> 0]}

\* the Ollama endpoint and the token threshold: the metadata is fetched for
\* Ollama only
GetTokenThreshold(fetched) ==
    /\ svc_pc = "threshold"
    /\ provider # "Ollama" => fetched = [ok |-> FALSE, context_size |-> 0]
    /\ metadata' = fetched
    /\ token_threshold' = TokenThresholdOf(provider, fetched)
    /\ svc_pc' = "generate"
    /\ UNCHANGED <<model_provider, api_key, chunks_left, chunk_summaries,
                   successful_chunk_count, llm_requests, final_markdown,
                   title_updates, status_updates, provider, text_chars,
                   summary_path, textVars, ffmpegVars, hostVars, audioVars>>

CeilDiv(a, b) == (a + b - 1) \div b

\* chunk_text(text, chunk_size_tokens, overlap_tokens).len() for a text of
\* total_chars characters: the loop leaves with the first window that reaches
\* the end of the text
NumChunks(total_chars, chunk_size_tokens, overlap_tokens) ==
    LET chunk_size_chars == UsizeMul(chunk_size_tokens, 4)
        overlap_chars == UsizeMul(overlap_tokens, 4)
        step == Max(SaturatingSub(chunk_size_chars, overlap_chars), 1)
    IN IF total_chars = 0 \/ chunk_size_tokens = 0 THEN 0
       ELSE IF total_chars <= chunk_size_chars THEN 1
       ELSE IF chunk_size_chars = 0 THEN total_chars
       ELSE 1 + CeilDiv(total_chars - chunk_size_chars, step)

\* what one generate_summary request is recorded as
Request(kind, ok) == [kind |-> kind, ok |-> ok]

\* variant: a single summary is sent to the combine request as well
AfterChunks_AlwaysCombine(summaries) ==
    IF summaries = 0
    THEN /\ FailRun("Multi-level summarization failed: No chunks were processed successfully.")
         /\ UNCHANGED successful_chunk_count
    ELSE /\ successful_chunk_count' = summaries
         /\ svc_pc' = "combine"
         /\ UNCHANGED status_updates

\* after the chunk loop: no summary is an error, several are combined
AfterChunks(summaries) ==
    IF summaries = 0
    THEN /\ FailRun("Multi-level summarization failed: No chunks were processed successfully.")
         /\ UNCHANGED successful_chunk_count
    ELSE /\ successful_chunk_count' = summaries
         /\ svc_pc' = IF summaries > 1 THEN "combine" ELSE "final"
         /\ UNCHANGED status_updates

\* generate_meeting_summary up to its first request: the strategy and, on the
\* multi-level path, chunk_text(text, token_threshold - 300, 100). Below 300
\* the subtraction panics in a build with overflow checks and wraps in one
\* without.
StartSummary(overflow_checks) ==
    /\ svc_pc = "generate"
    /\ summary_path' = SelectStrategy(provider, RoughTokenCount(text_chars),
                                      token_threshold)
    /\ IF summary_path' = "single-pass" THEN
            /\ successful_chunk_count' = 1
            /\ svc_pc' = "final"
            /\ UNCHANGED <<chunks_left, status_updates>>
       ELSE IF token_threshold < CHUNK_OVERHEAD_TOKENS /\ overflow_checks THEN
            /\ svc_pc' = "panicked"
            /\ UNCHANGED <<chunks_left, successful_chunk_count, status_updates>>
       ELSE LET num_chunks == NumChunks(text_chars,
                                        UsizeSub(token_threshold,
                                                 CHUNK_OVERHEAD_TOKENS),
                                        OVERLAP_TOKENS)
            IN /\ chunks_left' = num_chunks
               /\ IF num_chunks = 0
                  THEN AfterChunks(0)
                  ELSE /\ svc_pc' = "chunks"
                       /\ UNCHANGED <<successful_chunk_count, status_updates>>
    /\ UNCHANGED <<model_provider, api_key, metadata, chunk_summaries, llm_requests,
                   final_markdown, title_updates, provider, text_chars,
                   token_threshold, textVars, ffmpegVars, hostVars, audioVars>>

\* one turn of `for (i, chunk) in chunks.iter().enumerate()`: the request for
\* a chunk succeeds or fails; behind the last chunk the loop is left
SummarizeChunk(ok) ==
    /\ svc_pc = "chunks"
    /\ chunks_left > 0
    /\ llm_requests' = Append(llm_requests, Request("chunk", ok))
    /\ chunk_summaries' = IF ok THEN chunk_summaries + 1 ELSE chunk_summaries
    /\ chunks_left' = chunks_left - 1
    /\ IF chunks_left' = 0
       THEN AfterChunks(chunk_summaries')
       ELSE UNCHANGED <<svc_pc, successful_chunk_count, status_updates>>
    /\ UNCHANGED <<model_provider, api_key, metadata, final_markdown, title_updates,
                   summaryVars, textVars, ffmpegVars, hostVars, audioVars>>

\* the request that combines the chunk summaries: generate_summary(...).await?
CombineSummaries(ok) ==
    /\ svc_pc = "combine"
    /\ llm_requests' = Append(llm_requests, Request("combine", ok))
    /\ IF ok
       THEN /\ svc_pc' = "final"
            /\ UNCHANGED status_updates
       ELSE FailRun("generate_summary failed")
    /\ UNCHANGED <<model_provider, api_key, metadata, chunks_left, chunk_summaries,
                   successful_chunk_count, final_markdown, title_updates,
                   summaryVars, textVars, ffmpegVars, hostVars, audioVars>>

\* str::lines: the text between line feeds, without an empty last line
RECURSIVE Lines(_)
Lines(cs) ==
    IF cs = <<>> THEN <<>>
    ELSE LET feeds == {i \in 1..Len(cs) : cs[i] = "\n"}
         IN IF feeds = {} THEN <<cs>>
            ELSE <<SubSeq(cs, 1, Least(feeds) - 1)>>
                 \o Lines(SubSeq(cs, Least(feeds) + 1, Len(cs)))

TITLE_MARK == <<"#", " ">>

\* str::trim_start_matches(pat)
RECURSIVE TrimStartMatches(_, _)
TrimStartMatches(cs, pat) ==
    IF StartsWith(cs, pat)
    THEN TrimStartMatches(SubSeq(cs, Len(pat) + 1, Len(cs)), pat)
    ELSE cs

\* the lines of the markdown that start with "# ", by their number
TitleLines(markdown) ==
    {n \in 1..Len(Lines(markdown)) : StartsWith(Lines(markdown)[n], TITLE_MARK)}

\* extract_meeting_name_from_markdown(markdown): None is [some |-> FALSE]
ExtractMeetingNameFromMarkdown(markdown) ==
    IF TitleLines(markdown) = {} THEN [some |-> FALSE, name |-> <<>>]
    ELSE [some |-> TRUE,
          name |-> Trim(TrimStartMatches(Lines(markdown)[Least(TitleLines(markdown))],
                                         TITLE_MARK))]

\* "Strip the title line from markdown": from the first '#' to the end of its
\* line, then trim_start
StripTitle(markdown) ==
    LET hashes == {i \in 1..Len(markdown) : markdown[i] = "#"}
    IN IF hashes = {} THEN <<>>
       ELSE LET hash_pos == Least(hashes) - 1
                feeds == {i \in (hash_pos + 1)..Len(markdown) : markdown[i] = "\n"}
                body_start == IF feeds # {} THEN Least(feeds) - 1 ELSE Len(markdown)
            IN TrimStart(Slice(markdown, body_start, Len(markdown)))

\* the title, if one is taken, and the markdown that is stored
PostProcess(markdown) ==
    LET found == ExtractMeetingNameFromMarkdown(markdown)
    IN IF found.some /\ found.name # <<>>
       THEN [titles |-> <<found.name>>, markdown |-> StripTitle(markdown)]
       ELSE [titles |-> <<>>, markdown |-> markdown]

\* the template is loaded and the final request made; the raw answer is
\* cleaned; process_transcript_background then takes the title, strips it and
\* stores the result
FinishSummary(template_ok, ok, raw_markdown) ==
    /\ svc_pc = "final"
    /\ ~template_ok => ~ok /\ raw_markdown = <<>>
    /\ ~ok => raw_markdown = <<>>
    /\ llm_requests' = IF template_ok
                       THEN Append(llm_requests, Request("final", ok))
                       ELSE llm_requests
    /\ IF ~template_ok THEN
            /\ FailRun("Failed to load template")
            /\ UNCHANGED <<final_markdown, title_updates>>
       ELSE IF ~ok THEN
            /\ FailRun("generate_summary failed")
            /\ UNCHANGED <<final_markdown, title_updates>>
       ELSE LET cleaned == CleanLlmMarkdownOutputOf(raw_markdown)
            IN /\ final_markdown' = cleaned
               /\ IF successful_chunk_count = 0 /\ cleaned = <<>> THEN
                       /\ FailRun("Summary generation failed: No content was processed.")
                       /\ UNCHANGED title_updates
                  ELSE /\ title_updates' = PostProcess(cleaned).titles
                       /\ status_updates' =
                              UpdateProcessCompleted(PostProcess(cleaned).markdown,
                                                     successful_chunk_count)
                       /\ svc_pc' = "done"
    /\ UNCHANGED <<model_provider, api_key, metadata, chunks_left, chunk_summaries,
                   successful_chunk_count, summaryVars, textVars, ffmpegVars,
                   hostVars, audioVars>>

\* no summary process is running
NoService ==
    /\ svc_pc = "idle"
    /\ model_provider = <<>>
    /\ api_key = "unread"
    /\ metadata = [ok |-> FALSE, context_size |-> 0]
    /\ chunks_left = 0
    /\ chunk_summaries = 0
    /\ successful_chunk_count = 0
    /\ llm_requests = <<>>
    /\ final_markdown = <<>>
    /\ title_updates = <<>>
    /\ status_updates = <<>>

\* ------------------------------------------------------------ audio/ffmpeg.rs
\* initialize_ffmpeg up to the search: the state is read under the read lock
\* and a path that is there is returned
CheckInitialized(c) ==
    /\ ff_pc[c] = "idle"
    /\ ff_writer = 0
    /\ IF ffmpeg_state # "None"
       THEN /\ ff_pc' = [ff_pc EXCEPT ![c] = "done"]
            /\ ff_returned' = [ff_returned EXCEPT ![c] = ffmpeg_state]
       ELSE /\ ff_pc' = [ff_pc EXCEPT ![c] = "search"]
            /\ UNCHANGED ff_returned
    /\ UNCHANGED <<ffmpeg_state, ff_path, ff_searches, ff_writer, ff_probes,
                   summaryVars, textVars, serviceVars, hostVars, audioVars>>

\* spawn_blocking(|| find_ffmpeg_path_internal()).await??: the search finds
\* the executable somewhere or fails, and a failure ends the call
FindFfmpegPath(c, found) ==
    /\ ff_pc[c] = "search"
    /\ ff_searches' = ff_searches + 1
    /\ IF found = "Err"
       THEN /\ ff_pc' = [ff_pc EXCEPT ![c] = "done"]
            /\ ff_returned' = [ff_returned EXCEPT ![c] = "Err"]
            /\ UNCHANGED ff_path
       ELSE /\ ff_pc' = [ff_pc EXCEPT ![c] = "store"]
            /\ ff_path' = [ff_path EXCEPT ![c] = found]
            /\ UNCHANGED ff_returned
    /\ UNCHANGED <<ffmpeg_state, ff_writer, ff_probes, summaryVars, textVars,
                   serviceVars, hostVars, audioVars>>

\* let mut state = FFMPEG_STATE.write().await: the caller has the write lock
\* once nobody else holds it (read guards are dropped in the step that takes
\* them)
LockState(c) ==
    /\ ff_pc[c] = "store"
    /\ ff_writer = 0
    /\ ff_writer' = c
    /\ ff_pc' = [ff_pc EXCEPT ![c] = "locked"]
    /\ UNCHANGED <<ffmpeg_state, ff_path, ff_returned, ff_searches, ff_probes,
                   summaryVars, textVars, serviceVars, hostVars, audioVars>>

\* *state = Some(path.clone()); the guard is dropped; Ok(path)
StorePath(c) ==
    /\ ff_pc[c] = "locked"
    /\ ffmpeg_state' = ff_path[c]
    /\ ff_writer' = 0
    /\ ff_returned' = [ff_returned EXCEPT ![c] = ff_path[c]]
    /\ ff_pc' = [ff_pc EXCEPT ![c] = "done"]
    /\ UNCHANGED <<ff_path, ff_searches, ff_probes, summaryVars, textVars,
                   serviceVars, hostVars, audioVars>>

\* what a call is recorded as
Probe(call, result) == [call |-> call, result |-> result]

\* is_ffmpeg_ready(): try_read fails while the write lock is held, and
\* unwrap_or(false) turns that into false
IsFfmpegReady ==
    /\ Len(ff_probes) < MaxProbes
    /\ ff_probes' = Append(ff_probes,
                           Probe("is_ffmpeg_ready",
                                 IF ff_writer # 0 THEN "false"
                                 ELSE IF ffmpeg_state # "None" THEN "true"
                                 ELSE "false"))
    /\ UNCHANGED <<ffmpeg_state, ff_pc, ff_path, ff_returned, ff_searches,
                   ff_writer, summaryVars, textVars, serviceVars, hostVars, audioVars>>

\* get_ffmpeg_path(): the state is cloned under the read lock
GetFfmpegPath ==
    /\ Len(ff_probes) < MaxProbes
    /\ ff_writer = 0
    /\ ff_probes' = Append(ff_probes, Probe("get_ffmpeg_path", ffmpeg_state))
    /\ UNCHANGED <<ffmpeg_state, ff_pc, ff_path, ff_returned, ff_searches,
                   ff_writer, summaryVars, textVars, serviceVars, hostVars, audioVars>>

\* FFMPEG_STATE as the process starts, and nobody has called initialize_ffmpeg
NoFfmpeg ==
    /\ ffmpeg_state = "None"
    /\ ff_pc = [c \in Callers |-> "idle"]
    /\ ff_path = [c \in Callers |-> "None"]
    /\ ff_returned = [c \in Callers |-> "None"]
    /\ ff_searches = 0
    /\ ff_writer = 0
    /\ ff_probes = <<>>

\* ------------------------------------------------------------ specification
\* The state after AudioPipelineManager::new() and AudioPipeline's fields as
\* AudioPipeline::new() sets them; a recording session is running.
\* ---------------------------------------------------------- summary/prompts.rs
\* Each prompt is represented by its opening sentence, written without
\* accents. The three arms of every match are kept apart.
PromptGetters ==
    {"get_chunk_system_prompt", "get_chunk_user_prompt_template",
     "get_combine_system_prompt", "get_combine_user_prompt_template",
     "get_final_system_prompt_template"}

\* language codes: the two the application knows, other cases and regions
\* of them, another language, nonsense and the empty string
Languages == {"pt", "en", "PT", "pt-BR", "es", "invalid", ""}

\* variant: every code but "en" selects Portuguese
GetChunkSystemPrompt_PortugueseFallback(language) ==
    CASE language = "en" ->
           "You are an expert meeting summarizer. Generate all summaries in English."
      [] OTHER ->
           "Voce e um especialista em resumir reunioes. Gere todos os resumos em portugues do Brasil."

\* get_chunk_system_prompt
GetChunkSystemPrompt(language) ==
    CASE language = "pt" ->
           "Voce e um especialista em resumir reunioes. Gere todos os resumos em portugues do Brasil."
      [] language = "en" ->
           "You are an expert meeting summarizer. Generate all summaries in English."
      [] OTHER ->
           "You are an expert meeting summarizer. Generate all summaries in English."

\* get_chunk_user_prompt_template
GetChunkUserPromptTemplate(language) ==
    CASE language = "pt" ->
           "Forneca um resumo conciso mas abrangente do seguinte trecho de transcricao."
      [] language = "en" ->
           "Provide a concise but comprehensive summary of the following transcript chunk."
      [] OTHER ->
           "Provide a concise but comprehensive summary of the following transcript chunk."

\* get_combine_system_prompt
GetCombineSystemPrompt(language) ==
    CASE language = "pt" ->
           "Voce e um especialista em sintetizar resumos de reunioes. Trabalhe sempre em portugues do Brasil."
      [] language = "en" ->
           "You are an expert at synthesizing meeting summaries. Work in English."
      [] OTHER ->
           "You are an expert at synthesizing meeting summaries. Work in English."

\* get_combine_user_prompt_template
GetCombineUserPromptTemplate(language) ==
    CASE language = "pt" ->
           "A seguir estao resumos consecutivos de uma reuniao."
      [] language = "en" ->
           "The following are consecutive summaries of a meeting."
      [] OTHER ->
           "The following are consecutive summaries of a meeting."

\* get_final_system_prompt_template
GetFinalSystemPromptTemplate(language) ==
    CASE language = "pt" ->
           "Voce e um especialista em resumir reunioes. Gere um relatorio final de reuniao preenchendo o template Markdown fornecido com base no texto fonte."
      [] language = "en" ->
           "You are an expert meeting summarizer. Generate a final meeting report by filling in the provided Markdown template based on the source text."
      [] OTHER ->
           "You are an expert meeting summarizer. Generate a final meeting report by filling in the provided Markdown template based on the source text."

\* the language each prompt literal of the file is written in
PromptLanguage ==
    ("Voce e um especialista em resumir reunioes. Gere todos os resumos em portugues do Brasil."
        :> "Portuguese") @@
    ("You are an expert meeting summarizer. Generate all summaries in English."
        :> "English") @@
    ("Forneca um resumo conciso mas abrangente do seguinte trecho de transcricao."
        :> "Portuguese") @@
    ("Provide a concise but comprehensive summary of the following transcript chunk."
        :> "English") @@
    ("Voce e um especialista em sintetizar resumos de reunioes. Trabalhe sempre em portugues do Brasil."
        :> "Portuguese") @@
    ("You are an expert at synthesizing meeting summaries. Work in English."
        :> "English") @@
    ("A seguir estao resumos consecutivos de uma reuniao."
        :> "Portuguese") @@
    ("The following are consecutive summaries of a meeting."
        :> "English") @@
    ("Voce e um especialista em resumir reunioes. Gere um relatorio final de reuniao preenchendo o template Markdown fornecido com base no texto fonte."
        :> "Portuguese") @@
    ("You are an expert meeting summarizer. Generate a final meeting report by filling in the provided Markdown template based on the source text."
        :> "English")

\* the getter called g, applied to language
PromptOf(g, language) ==
    CASE g = "get_chunk_system_prompt" -> GetChunkSystemPrompt(language)
      [] g = "get_chunk_user_prompt_template" -> GetChunkUserPromptTemplate(language)
      [] g = "get_combine_system_prompt" -> GetCombineSystemPrompt(language)
      [] g = "get_combine_user_prompt_template" -> GetCombineUserPromptTemplate(language)
      [] g = "get_final_system_prompt_template" -> GetFinalSystemPromptTemplate(language)

\* one getter is called with the session's language
GetPrompt(g) ==
    /\ prompts[g] = ""
    /\ prompts' = [prompts EXCEPT ![g] = PromptOf(g, prompt_language)]
    /\ UNCHANGED <<prompt_language, deviceVars, loopbackVars, summaryVars, textVars,
                   serviceVars, ffmpegVars, audioVars>>

NoPrompts ==
    /\ prompt_language = "en"
    /\ prompts = [g \in PromptGetters |-> ""]

\* ------------------------------------------------- audio/devices/fallback.rs
\* what default_input_device() may name, or "None" when the call fails
InputDevices ==
    {"AirPods Pro", "WH-1000XM4 Wireless", "MacBook Pro Microphone",
     "USB Audio Device", "Loopback Audio", "None"}

\* what default_output_device() may name, or "None" when the call fails
OutputDevices ==
    {"AirPods Pro", "JBL Bluetooth Speaker", "MacBook Pro Speakers",
     "USB Audio Device", "Aggregate Device", "None"}

\* InputDeviceKind::detect on the names above: the tokens AirPods, Bluetooth,
\* BT and Wireless give Bluetooth; Virtual, Loopback and Aggregate give
\* Virtual; every other name is Wired
Detect ==
    ("AirPods Pro" :> "Bluetooth") @@
    ("WH-1000XM4 Wireless" :> "Bluetooth") @@
    ("JBL Bluetooth Speaker" :> "Bluetooth") @@
    ("MacBook Pro Microphone" :> "Wired") @@
    ("MacBook Pro Speakers" :> "Wired") @@
    ("USB Audio Device" :> "Wired") @@
    ("Loopback Audio" :> "Virtual") @@
    ("Aggregate Device" :> "Virtual")

\* InputDeviceKind::is_bluetooth
IsBluetooth(kind) == kind = "Bluetooth"

\* find_builtin_input_device() returns Result<Option<AudioDevice>>: an error,
\* no built-in input, or a built-in input
BuiltinInputSearches ==
    {[res |-> "Err", dev |-> "None"], [res |-> "None", dev |-> "None"],
     [res |-> "Some", dev |-> "MacBook Pro Microphone"]}

\* find_builtin_output_device() returns Result<Option<AudioDevice>>
BuiltinOutputSearches ==
    {[res |-> "Err", dev |-> "None"], [res |-> "None", dev |-> "None"],
     [res |-> "Some", dev |-> "MacBook Pro Speakers"]}

\* let final_mic = ...: err stands for the early return of `?`
FinalMic(mic, search) ==
    IF mic # "None"
    THEN IF IsBluetooth(Detect[mic])
         THEN CASE search.res = "Err" -> [err |-> TRUE, dev |-> "None"]
                [] search.res = "Some" -> [err |-> FALSE, dev |-> search.dev]
                [] search.res = "None" -> [err |-> FALSE, dev |-> mic]
         ELSE [err |-> FALSE, dev |-> mic]
    ELSE [err |-> FALSE, dev |-> "None"]

\* let final_speaker = ...: on macOS the Bluetooth speaker is kept, on the
\* other targets the built-in output is searched
FinalSpeaker(speaker, macos, search) ==
    IF speaker # "None"
    THEN IF IsBluetooth(Detect[speaker])
         THEN IF macos
              THEN [err |-> FALSE, dev |-> speaker]
              ELSE CASE search.res = "Err" -> [err |-> TRUE, dev |-> "None"]
                     [] search.res = "Some" -> [err |-> FALSE, dev |-> search.dev]
                     [] search.res = "None" -> [err |-> FALSE, dev |-> speaker]
         ELSE [err |-> FALSE, dev |-> speaker]
    ELSE [err |-> FALSE, dev |-> "None"]

\* get_safe_recording_devices(), for a build target and for what the two
\* searches for built-in devices return when they are made
GetSafeRecordingDevices(macos, in_search, out_search) ==
    /\ safe_devices.status = "pending"
    /\ LET final_mic == FinalMic(default_mic, in_search)
           final_speaker == FinalSpeaker(default_speaker, macos, out_search)
       IN safe_devices' =
            IF final_mic.err \/ final_speaker.err
            THEN [status |-> "Err", mic |-> "None", speaker |-> "None"]
            ELSE [status |-> "Ok", mic |-> final_mic.dev, speaker |-> final_speaker.dev]
    /\ UNCHANGED <<default_mic, default_speaker, promptVars, loopbackVars, summaryVars,
                   textVars, serviceVars, ffmpegVars, audioVars>>

NoDevices ==
    /\ default_mic = "None"
    /\ default_speaker = "None"
    /\ safe_devices = [status |-> "pending", mic |-> "None", speaker |-> "None"]

\* --------------------------------------------------- audio/capture/system.rs
I8_MAX == 127                      \* i8::MAX
I16_MAX == 32767                   \* i16::MAX
I32_MAX == 2147483647              \* i32::MAX
F32_MANTISSA_BITS == 24            \* significant bits of an f32

\* the integer formats the loopback stream is built for
IntFormats == {"I8", "I16", "I32"}

TypeMax(format) ==
    CASE format = "I8" -> I8_MAX
      [] format = "I16" -> I16_MAX
      [] format = "I32" -> I32_MAX

TypeMin(format) == -TypeMax(format) - 1

\* samples a callback may carry: every i8 value; for the wider types the
\* ends of the range, values around zero, and values around the sizes at
\* which `as f32` starts to round
SamplesOf(format) ==
    CASE format = "I8" -> TypeMin("I8")..TypeMax("I8")
      [] format = "I16" ->
           {TypeMin("I16"), TypeMin("I16") + 1, -16384, -1, 0, 1, 16384,
            TypeMax("I16") - 1, TypeMax("I16")}
      [] format = "I32" ->
           {TypeMin("I32"), TypeMin("I32") + 1, TypeMin("I32") + 64,
            TypeMin("I32") + 65, TypeMin("I32") + 192, -16777217, -16777216,
            -1, 0, 1, 16777216, 16777217, 16777219, TypeMax("I32") - 192,
            TypeMax("I32") - 64, TypeMax("I32") - 63, TypeMax("I32") - 1,
            TypeMax("I32")}

\* An f32 is held as its sign and its magnitude, the magnitude negated: an
\* f32 reaches the magnitude 2^31, which is i32::MIN negated.
NegMag(x) == IF x < 0 THEN x ELSE -x

\* half a magnitude, rounded towards zero
HalfMag(m) == (m + 1) \div 2

\* the number of bits of a magnitude
RECURSIVE BitLen(_)
BitLen(m) == IF m = 0 THEN 0 ELSE 1 + BitLen(HalfMag(m))

\* the distance between neighbouring f32 values at the magnitude m
Ulp(m) ==
    IF BitLen(m) <= F32_MANTISSA_BITS THEN 1
    ELSE 2 ^ (BitLen(m) - F32_MANTISSA_BITS)

\* a magnitude rounded to the nearest f32, ties to the even mantissa
RoundMag(m) ==
    LET u == Ulp(m)
        q == m \div u
        r == m - q * u
    IN IF 2 * r < u THEN q * u
       ELSE IF 2 * r > u THEN (q + 1) * u
       ELSE IF q % 2 = 0 THEN q * u
       ELSE (q + 1) * u

\* `x as f32`
AsF32(x) == [neg |-> x < 0, mag |-> RoundMag(NegMag(x))]

\* `sample as f32 / T::MAX as f32`: the sign of the quotient and its two
\* operands
ConvertSample(format, x) ==
    [sent |-> TRUE, neg |-> AsF32(x).neg, num |-> AsF32(x).mag,
     den |-> AsF32(TypeMax(format)).mag]

\* the f32 quotient of the magnitudes num and den is greater than 1.0: the
\* exact quotient lies above 1 + 2^-24, the midpoint of 1.0 and the next f32
ExceedsOne(num, den) ==
    LET diff == den - num
    IN /\ diff > 0
       /\ \/ diff >= 128
          \/ -(diff * 2 ^ F32_MANTISSA_BITS) < den

\* the callback of an integer format converts one sample and sends it on
LoopbackCallback ==
    /\ ~f32_data.sent
    /\ f32_data' = ConvertSample(sample_format, sample)
    /\ UNCHANGED <<sample_format, sample, promptVars, deviceVars, summaryVars,
                   textVars, serviceVars, ffmpegVars, audioVars>>

NoLoopback ==
    /\ sample_format = "I16"
    /\ sample = 0
    /\ f32_data = [sent |-> FALSE, neg |-> FALSE, num |-> 0, den |-> 0]

Init ==
    /\ is_recording = TRUE
    /\ state_sender = FALSE
    /\ clock = 0
    /\ errors = <<>>
    /\ sample_rate = [s \in Sources |-> TARGET_SAMPLE_RATE]
    /\ resampler = [s \in Sources |-> FALSE]
    /\ resampler_input_buffer = [s \in Sources |-> 0]
    /\ recording_sender = FALSE
    /\ saver_sink = <<>>
    /\ buffered_in = [s \in Sources |-> 0]
    /\ \E c \in CounterStarts : chunk_counter = [s \in Sources |-> c]
    /\ callbacks = 0
    /\ early_returns = 0
    /\ queue = <<>>
    /\ pipe_pc = "none"
    /\ cur_ts = 0
    /\ processed_chunks = 0
    /\ chunk_id_counter = 0
    /\ has_rec_sender = FALSE
    /\ mic_buf = 0
    /\ sys_buf = 0
    /\ popped = 0
    /\ vad_open = FALSE
    /\ vad_seq = 0
    /\ tx_open = TRUE
    /\ transcription_sink = <<>>
    /\ recording_sink = <<>>
    /\ mgr_sender = FALSE
    /\ mgr_handle = FALSE
    /\ mgr_started = FALSE
    /\ mgr_pc = "idle"
    /\ mgr_op = "none"
    /\ mgr_calls = 0
    /\ mgr_trace = <<>>
    /\ received = 0
    /\ reserved_received = 0
    /\ handled = {}
    /\ vad_fed = <<>>
    /\ unsent = {}
    /\ vad_errored = FALSE
    /\ tx_send_failed = FALSE
    /\ vad_dirty = FALSE
    /\ recv_at_stop = 0
    /\ NoSummary
    /\ NoText
    /\ NoService
    /\ NoFfmpeg
    /\ NoPrompts
    /\ NoDevices
    /\ NoLoopback

Next ==
    \/ StopRecording
    \/ CloseTranscription
    \/ \E src \in Sources, n \in ChunkSizes : ProcessAudioData(src, n)
    \/ PipeCheck
    \/ PipeExit
    \/ PipeRecvFlush
    \/ PipeRecvAudio
    \/ PipeDrainStep
    \/ PipeDrainEnd
    \/ PipeRecvNone
    \/ PipeTimeout
    \/ Start
    \/ ForceFlushFirst
    \/ ForceFlushFirstFails
    \/ ForceFlushNoSender
    \/ ForceFlushMore
    \/ StopCall
    \/ StopDropSender
    \/ StopJoin

Spec == Init /\ [][Next]_vars

\* the steps of the spawned pipeline task (AudioPipeline::run)
PipelineTask ==
    \/ PipeCheck
    \/ PipeExit
    \/ PipeRecvFlush
    \/ PipeRecvAudio
    \/ PipeDrainStep
    \/ PipeDrainEnd
    \/ PipeRecvNone
    \/ PipeTimeout

\* The runtime keeps polling the spawned task, and the receive is wrapped in
\* a 50 ms timeout, so a step of the task that stays possible is taken
\* (the fairness condition of ShutdownSpec).
\* The shutdown of one session: a fresh capture feeds the channel, the
\* manager flushes and stops, the session's flag goes false at any moment.
ShutdownInit ==
    /\ Init
    /\ chunk_counter = [s \in Sources |-> 0]

ShutdownNext ==
    \/ StopRecording
    \/ \E src \in Sources, n \in ChunkSizes : ProcessAudioData(src, n)
    \/ PipelineTask
    \/ Start
    \/ ForceFlushFirst
    \/ ForceFlushMore
    \/ StopDropSender
    \/ StopJoin

ShutdownSpec == ShutdownInit /\ [][ShutdownNext]_vars /\ WF_vars(PipelineTask)

\* The capture side on its own: two AudioCapture objects as
\* AudioCapture::new() leaves them, for devices at and away from 48 kHz, with
\* and without a persistent resampler and a recording saver; the pipeline
\* task is started but does not consume.
CaptureInit ==
    /\ is_recording = TRUE
    /\ state_sender = FALSE
    /\ clock = 0
    /\ errors = <<>>
    /\ sample_rate \in [Sources -> DeviceRates]
    /\ resampler \in [Sources -> BOOLEAN]
    /\ \A s \in Sources : resampler[s] => NeedsResampling(s)
    /\ resampler_input_buffer = [s \in Sources |-> 0]
    /\ recording_sender \in BOOLEAN
    /\ saver_sink = <<>>
    /\ buffered_in = [s \in Sources |-> 0]
    /\ chunk_counter = [s \in Sources |-> 0]
    /\ callbacks = 0
    /\ early_returns = 0
    /\ queue = <<>>
    /\ pipe_pc = "none"
    /\ cur_ts = 0
    /\ processed_chunks = 0
    /\ chunk_id_counter = 0
    /\ has_rec_sender = FALSE
    /\ mic_buf = 0
    /\ sys_buf = 0
    /\ popped = 0
    /\ vad_open = FALSE
    /\ vad_seq = 0
    /\ tx_open = TRUE
    /\ transcription_sink = <<>>
    /\ recording_sink = <<>>
    /\ mgr_sender = FALSE
    /\ mgr_handle = FALSE
    /\ mgr_started = FALSE
    /\ mgr_pc = "idle"
    /\ mgr_op = "none"
    /\ mgr_calls = 0
    /\ mgr_trace = <<>>
    /\ received = 0
    /\ reserved_received = 0
    /\ handled = {}
    /\ vad_fed = <<>>
    /\ unsent = {}
    /\ vad_errored = FALSE
    /\ tx_send_failed = FALSE
    /\ vad_dirty = FALSE
    /\ recv_at_stop = 0
    /\ NoSummary
    /\ NoText
    /\ NoService
    /\ NoFfmpeg
    /\ NoPrompts
    /\ NoDevices
    /\ NoLoopback

CaptureNext ==
    \/ \E src \in Sources, n \in CallbackSizes : ProcessAudioData(src, n)
    \/ \E src \in Sources, n \in CallbackSizes : ProcessAudioDataStopped(src, n)
    \/ \E msg \in StreamErrorMessages : HandleStreamError(msg)
    \/ Start
    \/ PipelineTaskFailed
    \/ StopRecording

CaptureSpec == CaptureInit /\ [][CaptureNext]_vars

\* the audio side before anything has run
AudioIdle ==
    /\ is_recording = TRUE
    /\ state_sender = FALSE
    /\ clock = 0
    /\ errors = <<>>
    /\ sample_rate = [s \in Sources |-> TARGET_SAMPLE_RATE]
    /\ resampler = [s \in Sources |-> FALSE]
    /\ resampler_input_buffer = [s \in Sources |-> 0]
    /\ recording_sender = FALSE
    /\ saver_sink = <<>>
    /\ buffered_in = [s \in Sources |-> 0]
    /\ chunk_counter = [s \in Sources |-> 0]
    /\ callbacks = 0
    /\ early_returns = 0
    /\ queue = <<>>
    /\ pipe_pc = "none"
    /\ cur_ts = 0
    /\ processed_chunks = 0
    /\ chunk_id_counter = 0
    /\ has_rec_sender = FALSE
    /\ mic_buf = 0
    /\ sys_buf = 0
    /\ popped = 0
    /\ vad_open = FALSE
    /\ vad_seq = 0
    /\ tx_open = TRUE
    /\ transcription_sink = <<>>
    /\ recording_sink = <<>>
    /\ mgr_sender = FALSE
    /\ mgr_handle = FALSE
    /\ mgr_started = FALSE
    /\ mgr_pc = "idle"
    /\ mgr_op = "none"
    /\ mgr_calls = 0
    /\ mgr_trace = <<>>
    /\ received = 0
    /\ reserved_received = 0
    /\ handled = {}
    /\ vad_fed = <<>>
    /\ unsent = {}
    /\ vad_errored = FALSE
    /\ tx_send_failed = FALSE
    /\ vad_dirty = FALSE
    /\ recv_at_stop = 0

\* A summary is requested for a transcript of any of the lengths, a provider
\* and a token threshold.
SummaryInit ==
    /\ AudioIdle
    /\ provider \in Providers
    /\ text_chars \in TextLens
    /\ token_threshold \in Thresholds
    /\ summary_path = "none"
    /\ NoText
    /\ NoService
    /\ NoFfmpeg
    /\ NoPrompts
    /\ NoDevices
    /\ NoLoopback

SummaryNext == GenerateMeetingSummary

SummarySpec == SummaryInit /\ [][SummaryNext]_vars

RECURSIVE Flatten(_)
Flatten(ss) == IF ss = <<>> THEN <<>> ELSE Head(ss) \o Flatten(Tail(ss))

\* the texts of at most MaxTokens pieces
MarkdownTexts ==
    {Flatten(ss) : ss \in UNION {[1..n -> MarkdownTokens] : n \in 0..MaxTokens}}

\* chunk_text is called on a text of words and spaces with a chunk size and an
\* overlap, clean_llm_markdown_output on an LLM answer and then on its own
\* result.
TextInit ==
    /\ AudioIdle
    /\ NoSummary
    /\ text \in ChunkTexts \cup MarkdownTexts
    /\ text_op = "none"
    /\ text_out = <<>>
    /\ NoService
    /\ NoFfmpeg
    /\ NoPrompts
    /\ NoDevices
    /\ NoLoopback

TextNext ==
    \/ \E k \in ChunkSizeTokens, o \in OverlapTokens : ChunkText(k, o)
    \/ CleanLlmMarkdownOutput
    \/ CleanLlmMarkdownOutputAgain

TextSpec == TextInit /\ [][TextNext]_vars

\* A run of process_transcript_background is started for a provider name and
\* a transcript.
ServiceInit ==
    /\ AudioIdle
    /\ NoText
    /\ NoFfmpeg
    /\ NoPrompts
    /\ NoDevices
    /\ NoLoopback
    /\ provider = "none"
    /\ text_chars \in TranscriptLens
    /\ token_threshold = 0
    /\ summary_path = "none"
    /\ svc_pc = "start"
    /\ model_provider \in ModelProviders
    /\ api_key = "unread"
    /\ metadata = [ok |-> FALSE, context_size |-> 0]
    /\ chunks_left = 0
    /\ chunk_summaries = 0
    /\ successful_chunk_count = 0
    /\ llm_requests = <<>>
    /\ final_markdown = <<>>
    /\ title_updates = <<>>
    /\ status_updates = <<>>

ServiceNext ==
    \/ ParseProvider
    \/ \E lookup \in KeyLookups : GetApiKey(lookup)
    \/ \E fetched \in MetadataFetches : GetTokenThreshold(fetched)
    \/ \E overflow_checks \in BOOLEAN : StartSummary(overflow_checks)
    \/ \E ok \in BOOLEAN : SummarizeChunk(ok)
    \/ \E ok \in BOOLEAN : CombineSummaries(ok)
    \/ \E template_ok, ok \in BOOLEAN, raw \in RawMarkdowns \cup {<<>>} :
          FinishSummary(template_ok, ok, raw)

ServiceSpec == ServiceInit /\ [][ServiceNext]_vars

\* Callers call initialize_ffmpeg, one after another or at the same time.
FfmpegInit ==
    /\ AudioIdle
    /\ NoSummary
    /\ NoText
    /\ NoService
    /\ NoFfmpeg
    /\ NoPrompts
    /\ NoDevices
    /\ NoLoopback

FfmpegNext ==
    \/ IsFfmpegReady
    \/ GetFfmpegPath
    \/ \E c \in Callers :
        \/ CheckInitialized(c)
        \/ \E found \in FoundPaths \cup {"Err"} : FindFfmpegPath(c, found)
        \/ LockState(c)
        \/ StorePath(c)

FfmpegSpec == FfmpegInit /\ [][FfmpegNext]_vars

\* The prompt getters, for one language code per behaviour.
PromptInit ==
    /\ AudioIdle
    /\ NoSummary
    /\ NoText
    /\ NoService
    /\ NoFfmpeg
    /\ NoDevices
    /\ NoLoopback
    /\ prompt_language \in Languages
    /\ prompts = [g \in PromptGetters |-> ""]

PromptNext == \E g \in PromptGetters : GetPrompt(g)

PromptSpec == PromptInit /\ [][PromptNext]_vars

\* Device selection, for every pair of system defaults.
DeviceInit ==
    /\ AudioIdle
    /\ NoSummary
    /\ NoText
    /\ NoService
    /\ NoFfmpeg
    /\ NoPrompts
    /\ NoLoopback
    /\ default_mic \in InputDevices
    /\ default_speaker \in OutputDevices
    /\ safe_devices = [status |-> "pending", mic |-> "None", speaker |-> "None"]

DeviceNext ==
    \E macos \in BOOLEAN, in_search \in BuiltinInputSearches,
       out_search \in BuiltinOutputSearches :
        GetSafeRecordingDevices(macos, in_search, out_search)

DeviceSpec == DeviceInit /\ [][DeviceNext]_vars

\* The loopback callbacks, for one sample of one integer format.
LoopbackInit ==
    /\ AudioIdle
    /\ NoSummary
    /\ NoText
    /\ NoService
    /\ NoFfmpeg
    /\ NoPrompts
    /\ NoDevices
    /\ sample_format \in IntFormats
    /\ sample \in SamplesOf(sample_format)
    /\ f32_data = [sent |-> FALSE, neg |-> FALSE, num |-> 0, den |-> 0]

LoopbackNext == LoopbackCallback

LoopbackSpec == LoopbackInit /\ [][LoopbackNext]_vars

Delivered == Range(transcription_sink) \cup Range(recording_sink)

\* C1 as stated: a received chunk is treated as a flush signal exactly when
\* its chunk_id lies in the top ten values [u64::MAX-9, u64::MAX].
C1_FlushExactlyTopTen ==
    \A h \in handled : h.flush <=> h.chunk_id >= U64_MAX - 9

\* C1 amended: a received chunk is treated as a flush signal exactly when its
\* chunk_id is at least u64::MAX-10 (the top eleven values); every other
\* chunk is counted and pushed to the mixer.
C1_FlushExactlyTopEleven ==
    \A h \in handled : h.flush <=> h.chunk_id >= U64_MAX - 10

C1_Witness ==
    /\ [chunk_id |-> U64_MAX - 10, flush |-> TRUE] \in handled
    /\ [chunk_id |-> U64_MAX - 11, flush |-> FALSE] \in handled

\* C2: no chunk with a reserved chunk_id reaches the transcription sink or
\* the recording sink, and a chunk with a reserved id is never pushed to the
\* mixer nor counted in processed_chunks.
C2_NoSentinelDelivered ==
    /\ \A c \in Delivered : ~ReservedId(c.chunk_id)
    /\ \A h \in handled : ReservedId(h.chunk_id) => h.flush
    /\ processed_chunks + reserved_received <= received

C2_Witness ==
    /\ reserved_received >= 2
    /\ transcription_sink # <<>>
    /\ recording_sink # <<>>

\* C3: every chunk in the transcription sink, from the run loop or from a
\* flush, has sample_rate 16000 and at least 800 samples.
C3_TranscriptionChunksLongEnough ==
    \A c \in Range(transcription_sink) :
        c.sample_rate = 16000 /\ c.data >= 800

\* a short segment was dropped and a long one was delivered by a flush
C3_Witness ==
    /\ tx_open
    /\ unsent = {}
    /\ vad_seq = 2
    /\ Len(transcription_sink) = 1
    /\ transcription_sink[1].via = "flush"

\* C4: the chunk_ids in the transcription sink are 0, 1, 2, ... in delivery
\* order, over both paths, and a failed send consumes no id.
C4_TranscriptionIdsGapFree ==
    /\ \A i \in 1..Len(transcription_sink) : transcription_sink[i].chunk_id = i - 1
    /\ chunk_id_counter = Len(transcription_sink)

\* one delivery from each path
C4_Witness ==
    /\ Len(transcription_sink) = 2
    /\ transcription_sink[1].via = "run"
    /\ transcription_sink[2].via = "flush"

\* C5 as stated: every delivered chunk carries device_type Mixed.
C5_DeliveredAreMixed ==
    \A c \in Delivered : c.device_type = "Mixed"

\* C5 amended: every chunk delivered to the transcription sink or to the
\* recording sink carries device_type Microphone, the tag the pipeline uses
\* for mixed audio.
C5_DeliveredAreMicrophone ==
    \A c \in Delivered : c.device_type = "Microphone"

C5_Witness ==
    /\ transcription_sink # <<>>
    /\ recording_sink # <<>>

\* C6: each window popped from the mixer is fed to the VAD exactly once and,
\* when a recording sender is configured, forwarded for recording exactly
\* once and unmodified, also when the VAD call for it failed.
C6_EachWindowOnce ==
    /\ vad_fed = [i \in 1..popped |-> i]
    /\ has_rec_sender =>
         /\ Len(recording_sink) = popped
         /\ \A i \in 1..popped :
              /\ recording_sink[i].win = i
              /\ recording_sink[i].data = WINDOW_SAMPLES
    /\ ~has_rec_sender => recording_sink = <<>>

C6_Witness ==
    /\ has_rec_sender
    /\ popped >= 2
    /\ vad_errored

\* C7: the timestamps of the chunks in the recording sink strictly increase
\* in delivery order.
C7_RecordingTimestampsIncrease ==
    \A i, j \in 1..Len(recording_sink) :
        i < j => recording_sink[i].timestamp < recording_sink[j].timestamp

\* C8: when the task has ended, every chunk that was in the input channel
\* when is_recording went false has been received.
C8_StopDrainsChannel ==
    pipe_pc = "done" => received >= recv_at_stop

\* C9: when force_flush_and_stop() has returned on a started manager, the
\* task has ended, the VAD was flushed after it was last fed, and send ran
\* for every segment of at least 800 samples the VAD returned.
C9_ForcedFlushDelivers ==
    (mgr_pc = "done" /\ mgr_op = "force_flush_and_stop" /\ mgr_started) =>
        /\ pipe_pc = "done"
        /\ ~vad_dirty
        /\ unsent = {}

C9_Witness ==
    /\ mgr_pc = "done"
    /\ mgr_op = "force_flush_and_stop"
    /\ Len(mgr_trace) = 7
    /\ popped >= 1
    /\ \E i \in 1..Len(transcription_sink) : transcription_sink[i].via = "flush"

\* C10: force_flush_and_stop() sends at most four flush signals, each with
\* empty data and a chunk_id in [u64::MAX-3, u64::MAX], in the order send,
\* sleep 20 ms, three sends, sleep 10 ms, stop; it sleeps 30 ms in all; with
\* no sender or a failed first send it neither sends again nor sleeps.
C10_ForceFlushProtocol ==
    mgr_op = "force_flush_and_stop" =>
        LET sends == SelectSeq(mgr_trace, LAMBDA e : e.ev = "send")
            sleeps == SelectSeq(mgr_trace, LAMBDA e : e.ev = "sleep")
            shape == [i \in 1..Len(mgr_trace) |-> mgr_trace[i].ev]
            full == <<"send", "sleep", "send", "send", "send", "sleep", "stop">>
        IN /\ Len(sends) <= 4
           /\ \A i \in 1..Len(sends) :
                /\ sends[i].data = 0
                /\ sends[i].arg \in (U64_MAX - 3)..U64_MAX
           /\ \/ shape = <<>>
              \/ shape = <<"stop">>
              \/ shape = <<"send">> /\ ~mgr_trace[1].ok
              \/ shape = <<"send", "stop">> /\ ~mgr_trace[1].ok
              \/ /\ \E n \in {2, 6, 7} : shape = SubSeq(full, 1, n)
                 /\ mgr_trace[1].ok
           /\ \A i \in 1..Len(sleeps) : sleeps[i].arg = (IF i = 1 THEN 20 ELSE 10)
           /\ SeqSum([i \in 1..Len(sleeps) |-> sleeps[i].arg]) <= 30
           /\ mgr_pc \in {"join", "done"} /\ Len(sends) = 4 =>
                SeqSum([i \in 1..Len(sleeps) |-> sleeps[i].arg]) = 30

C10_Witness ==
    /\ mgr_op = "force_flush_and_stop"
    /\ mgr_pc = "done"
    /\ Len(mgr_trace) = 7

\* C11: when the task has ended after it handled a flush signal, nothing
\* that was pushed into the mixer is left in its per-source buffers.
C11_FlushEmptiesMixer ==
    (pipe_pc = "done" /\ \E h \in handled : h.flush) =>
        mic_buf = 0 /\ sys_buf = 0

\* C12: once stop() on a started manager has dropped the manager's sender
\* and waits for the task, the input channel is closed (no sender is left),
\* and a stop() that has returned found the task ended by the closed channel
\* alone, with is_recording still true.
C12_StopClosesChannel ==
    /\ (mgr_op = "stop" /\ mgr_pc = "join" /\ mgr_handle) => ~state_sender
    /\ (mgr_op = "stop" /\ mgr_pc = "done" /\ mgr_started) => is_recording

\* chunks process_audio_data has sent, to the recording saver or the pipeline
Emitted == Range(saver_sink) \cup Range(queue)

\* C13: every chunk process_audio_data sends, to the recording saver and to
\* the pipeline, has sample_rate 48000, whatever the device rate and whether
\* the audio was not resampled, came from the persistent resampler or from
\* the fallback.
C13_EmittedAt48k ==
    \A c \in Emitted : c.sample_rate = 48000

C13_Witness ==
    /\ \E c \in Range(saver_sink) : c.path = "persistent"
    /\ \E c \in Range(queue) : c.path = "fallback"
    /\ \E s \in Sources : sample_rate[s] = 16000

\* C14: on a device away from 48 kHz every emitted chunk comes from the
\* persistent resampler and from complete 512-sample blocks only, the blocks
\* of a source follow one another in capture order, and less than one block
\* stays buffered between callbacks.
C14_OnlyPersistentBlocks ==
    /\ \A c \in Emitted :
          c.path # "direct" =>
             /\ c.path = "persistent"
             /\ \A i \in 1..Len(c.origin) :
                   /\ c.origin[i][2] - c.origin[i][1] + 1 = RESAMPLER_CHUNK_SIZE
                   /\ c.origin[i][1] % RESAMPLER_CHUNK_SIZE = 1
    /\ \A s \in Sources : resampler_input_buffer[s] < RESAMPLER_CHUNK_SIZE

\* input ranges a and b share a sample
Overlap(a, b) == a[1] <= b[2] /\ b[1] <= a[2]

\* C15: a call in which the persistent resampler failed sends no chunk, and
\* no input sample of a source goes into two emitted chunks.
C15_FailureDropsChunk ==
    /\ \A c \in Emitted : ~c.resampler_failed
    /\ \A i, j \in 1..Len(saver_sink) :
          (i < j /\ saver_sink[i].device_type = saver_sink[j].device_type) =>
             \A a \in Range(saver_sink[i].origin), b \in Range(saver_sink[j].origin) :
                ~Overlap(a, b)

\* the chunks of one capture source in a channel, in channel order
PerSource(chunks, s) == SelectSeq(chunks, LAMBDA c : c.device_type = s)

StreamErrors == {e \in Range(errors) : e.by = "handle_stream_error"}

\* msg, in lower case, contains one of the patterns
Mentions(msg, patterns) ==
    \E p \in patterns : Contains(ToLowercase(Chars[msg]), Chars[p])

\* the classification by substring, for a given set of disconnect patterns
StreamErrorFor(msg, disconnect) ==
    IF Mentions(msg, disconnect) THEN "DeviceDisconnected"
    ELSE IF Mentions(msg, {"permission", "access denied"}) THEN "PermissionDenied"
    ELSE IF Mentions(msg, {"channel closed"}) THEN "ChannelClosed"
    ELSE "StreamFailed"

\* C17 as stated: a message containing "no longer available", "not found",
\* "disconnected", "no such device", "removed" or "unavailable" is reported
\* as DeviceDisconnected, else "permission" / "access denied" as
\* PermissionDenied, else "channel closed" as ChannelClosed, else StreamFailed.
C17_ClassifiedByShortPatterns ==
    \A e \in StreamErrors :
        e.error = StreamErrorFor(e.cause,
                      {"no longer available", "not found", "disconnected",
                       "no such device", "removed", "unavailable"})

\* C17 amended: the disconnect patterns are "device is no longer available",
\* "device not found", "device disconnected", "no such device", "device
\* unavailable" and "device removed"; the rest of the classification is as
\* stated.
C17_ClassifiedByDevicePatterns ==
    \A e \in StreamErrors :
        e.error = StreamErrorFor(e.cause,
                      {"device is no longer available", "device not found",
                       "device disconnected", "no such device",
                       "device unavailable", "device removed"})

C17_Witness ==
    [error |-> "StreamFailed", cause |-> "file not found",
     by |-> "handle_stream_error"] \in Range(errors)

\* C18: every call of handle_stream_error reports exactly one error, one of
\* the four kinds, whatever the message and its letter case; a message that
\* matches a disconnect pattern and a permission pattern is reported as
\* DeviceDisconnected.
C18_ExactlyOneError ==
    [][\A msg \in StreamErrorMessages :
          HandleStreamError(msg) =>
             /\ Len(errors') = Len(errors) + 1
             /\ SubSeq(errors', 1, Len(errors)) = errors
             /\ errors'[Len(errors')].cause = msg
             /\ errors'[Len(errors')].error \in
                   {"DeviceDisconnected", "PermissionDenied", "ChannelClosed",
                    "StreamFailed"}
             /\ (/\ Mentions(msg, DisconnectPatterns)
                 /\ Mentions(msg, {"permission", "access denied"}))
                   => errors'[Len(errors')].error = "DeviceDisconnected"
             /\ msg = "Device not found"
                   => errors'[Len(errors')].error = "DeviceDisconnected"
             /\ msg = "Permission denied"
                   => errors'[Len(errors')].error = "PermissionDenied"]_vars

C18_Witness ==
    [error |-> "DeviceDisconnected", cause |-> "device disconnected: permission denied",
     by |-> "handle_stream_error"] \in Range(errors)

\* msg contains pat, letter case included
HasText(msg, pat) == Contains(Chars[msg], Chars[pat])

\* C19: a call of process_audio_data reports at most one error; none when
\* the send succeeds or its failure message contains "Audio pipeline not
\* ready"; otherwise ChannelClosed for "channel closed", else BufferOverflow
\* for "full", else ProcessingFailed.
C19_SendFailureReport ==
    [][callbacks' # callbacks =>
          /\ Len(errors') <= Len(errors) + 1
          /\ SubSeq(errors', 1, Len(errors)) = errors
          /\ SendAudioChunkResult \in {"ok", "not_ready"} => errors' = errors
          /\ Len(errors') = Len(errors) + 1 =>
                LET e == errors'[Len(errors')]
                IN /\ e.by = "process_audio_data"
                   /\ ~HasText(e.cause, "Audio pipeline not ready")
                   /\ e.error = IF HasText(e.cause, "channel closed") THEN "ChannelClosed"
                                ELSE IF HasText(e.cause, "full") THEN "BufferOverflow"
                                ELSE "ProcessingFailed"]_vars

C19_Witness ==
    /\ [error |-> "ChannelClosed", cause |-> "channel closed: buffer full",
        by |-> "process_audio_data"] \in Range(errors)
    /\ [error |-> "ProcessingFailed", cause |-> "Channel Closed",
        by |-> "process_audio_data"] \in Range(errors)

\* the least t with 4 * t >= chars
CeilQuarter(chars) ==
    CHOOSE t \in 0..chars : 4 * t >= chars /\ (t = 0 \/ 4 * (t - 1) < chars)

\* C20: generate_meeting_summary takes the single-pass path exactly when the
\* provider is not Ollama or T = ceil(chars / 4) is strictly below
\* token_threshold, and the multi-level path otherwise.
C20_StrategySelection ==
    summary_path # "none" =>
        /\ summary_path \in {"single-pass", "multi-level"}
        /\ summary_path = "single-pass" <=>
              (provider # "Ollama" \/ CeilQuarter(text_chars) < token_threshold)

C20_Witness ==
    /\ provider = "Ollama"
    /\ CeilQuarter(text_chars) = token_threshold
    /\ summary_path = "multi-level"

\* the chunks a call of chunk_text returned
Chunks == IF text_op = "chunk_text" THEN text_out.chunks ELSE <<>>

\* the chunks that took the character at position i of the text
TakenBy(i) == {j \in 1..Len(Chunks) : Chunks[j].start <= i /\ i < Chunks[j].end}

\* C21: with no overlap and a chunk size above zero, every character of the
\* text that is not whitespace is in exactly one chunk: none is missing from
\* the concatenation of the chunks and none is there twice.
C21_NoCharLostOrRepeated ==
    (/\ text_op = "chunk_text"
     /\ text_out.overlap_tokens = 0
     /\ text_out.chunk_size_tokens > 0)
    => \A i \in 0..(Len(text) - 1) :
          ~IsWhitespace(text[i + 1]) => Cardinality(TakenBy(i)) = 1

\* C22: every chunk is non-empty and has at most chunk_size_tokens * 4
\* characters; an empty text or a chunk size of zero gives no chunks; a text of
\* at most chunk_size_tokens * 4 characters gives one chunk equal to the text.
C22_ChunkSizes ==
    text_op = "chunk_text" =>
        LET k == text_out.chunk_size_tokens
        IN /\ \A j \in 1..Len(Chunks) :
                 /\ Chunks[j].chars # <<>>
                 /\ Len(Chunks[j].chars) <= k * 4
           /\ (text = <<>> \/ k = 0) => Chunks = <<>>
           /\ (text # <<>> /\ k > 0 /\ Len(text) <= k * 4) =>
                 /\ Len(Chunks) = 1
                 /\ Chunks[1].chars = text

\* a text longer than one chunk was cut into several chunks
C22_Witness ==
    /\ text_op = "chunk_text"
    /\ text_out.chunk_size_tokens = 2
    /\ Len(text) > 8
    /\ Len(Chunks) > 1

\* position p lies inside a word: the characters on both sides of it are not
\* whitespace
InsideWord(p) ==
    /\ 0 < p /\ p < Len(text)
    /\ ~IsWhitespace(text[p])
    /\ ~IsWhitespace(text[p + 1])

\* C23: no chunk ends inside a word unless it ends the text, and no chunk
\* after the first starts inside a word.
C23_NoWordCut ==
    (text_op = "chunk_text" /\ text_out.chunk_size_tokens > 0) =>
        \A j \in 1..Len(Chunks) :
           /\ Chunks[j].end < Len(text) => ~InsideWord(Chunks[j].end)
           /\ j > 1 => ~InsideWord(Chunks[j].start)

\* C24: cleaning a cleaned output changes nothing.
C24_CleanIdempotent ==
    text_op = "clean again" => text_out.again = text_out.cleaned

\* the status update a finished run has issued
Stored == status_updates[1]

\* the run has stored a summary
Completed ==
    /\ svc_pc = "done"
    /\ Len(status_updates) = 1
    /\ Stored.status = "completed"

\* the lines that are not blank
RECURSIVE NonBlank(_)
NonBlank(ls) ==
    IF ls = <<>> THEN <<>>
    ELSE IF Trim(Head(ls)) = <<>> THEN NonBlank(Tail(ls))
    ELSE <<Head(ls)>> \o NonBlank(Tail(ls))

\* the lines without line n
WithoutLine(ls, n) == SubSeq(ls, 1, n - 1) \o SubSeq(ls, n + 1, Len(ls))

\* C25: when the final markdown has a line starting with "# " that names a
\* title, the first such line becomes the meeting title and the stored
\* markdown is the final markdown without that line: every other line is kept,
\* also the lines before the title line and lines with a '#' elsewhere.
C25_OnlyTitleLineRemoved ==
    (/\ Completed
     /\ TitleLines(final_markdown) # {}
     /\ ExtractMeetingNameFromMarkdown(final_markdown).name # <<>>)
    => LET n == Least(TitleLines(final_markdown))
       IN /\ title_updates =
                <<Trim(TrimStartMatches(Lines(final_markdown)[n], TITLE_MARK))>>
          /\ NonBlank(Lines(Stored.markdown))
                = NonBlank(WithoutLine(Lines(final_markdown), n))

\* C26: a run issues at most one terminal status update, and a run that has
\* ended has issued exactly one, completed or failed.
C26_OneTerminalUpdate ==
    /\ Len(status_updates) <= 1
    /\ svc_pc \in {"done", "panicked"} => Len(status_updates) = 1

\* the provider name is not supported, the key lookup failed, or a provider
\* other than Ollama has no key
ValidationFailed ==
    \/ svc_pc # "start" /\ FromStr(model_provider) = "Err"
    \/ api_key = "error"
    \/ api_key \in {"none", "empty"} /\ provider # "Ollama"

\* C27: when validation fails the run is marked failed and ends without a call
\* of generate_meeting_summary and without an LLM request; a missing or empty
\* key does not fail a run for Ollama.
C27_NoRequestOnFailedValidation ==
    /\ ValidationFailed =>
          /\ llm_requests = <<>>
          /\ summary_path = "none"
          /\ svc_pc = "done"
          /\ Len(status_updates) = 1
          /\ Stored.status = "failed"
    /\ provider = "Ollama" =>
          \A i \in 1..Len(status_updates) :
             status_updates[i].error # "Api key not found"

\* a cloud provider without a key was turned away
C27_Witness ==
    /\ provider = "OpenRouter"
    /\ api_key = "empty"
    /\ svc_pc = "done"
    /\ Stored.error = "Api key not found"
    /\ llm_requests = <<>>

\* generate_meeting_summary has been called
ThresholdPassed == summary_path # "none" \/ svc_pc \in {"generate", "panicked"}

\* C28: the token threshold generate_meeting_summary is given is, for Ollama,
\* the context size less 300 and not below 0 when the metadata was fetched and
\* 4000 when the fetch failed, and 100000 for every other provider.
C28_TokenThreshold ==
    ThresholdPassed =>
        token_threshold =
            IF provider = "Ollama"
            THEN IF metadata.ok
                 THEN IF metadata.context_size > 300
                      THEN metadata.context_size - 300
                      ELSE 0
                 ELSE 4000
            ELSE 100000

\* an Ollama model with a context of less than 300 tokens
C28_Witness ==
    /\ ThresholdPassed
    /\ provider = "Ollama"
    /\ metadata.ok
    /\ metadata.context_size < 300
    /\ token_threshold = 0

\* the requests of a kind, and those of them that succeeded
RequestsOf(kind) == SelectSeq(llm_requests, LAMBDA r : r.kind = kind)
Succeeded(kind) == SelectSeq(llm_requests, LAMBDA r : r.kind = kind /\ r.ok)

MULTI_LEVEL_FAILED ==
    "Multi-level summarization failed: No chunks were processed successfully."

\* C29: on the multi-level path every chunk is asked for, failed or not; the
\* run fails with the multi-level error exactly when no chunk succeeded, and a
\* stored chunk count is the number of chunks that succeeded; a combine request
\* is made only when more than one chunk succeeded; a failed combine or final
\* request fails the run. A single-pass run stores chunk count 1.
C29_MultiLevelOutcome ==
    /\ (svc_pc = "done" /\ summary_path = "multi-level") =>
          /\ chunks_left = 0
          /\ Len(Succeeded("chunk")) = 0 <=> Stored.error = MULTI_LEVEL_FAILED
          /\ Stored.status = "completed" =>
                Stored.chunk_count = Len(Succeeded("chunk"))
    /\ RequestsOf("combine") # <<>> => Len(Succeeded("chunk")) > 1
    /\ (\E i \in 1..Len(llm_requests) :
           llm_requests[i].kind \in {"combine", "final"} /\ ~llm_requests[i].ok)
       => svc_pc = "done" /\ Stored.status = "failed"
    /\ (Completed /\ summary_path = "single-pass") => Stored.chunk_count = 1

\* three chunks of which one failed, combined and stored with chunk count 2
C29_Witness ==
    /\ Completed
    /\ summary_path = "multi-level"
    /\ Len(RequestsOf("chunk")) = 3
    /\ Len(Succeeded("chunk")) = 2
    /\ Len(Succeeded("combine")) = 1
    /\ Stored.chunk_count = 2

\* C30: as long as no search has failed, find_ffmpeg_path_internal has run at
\* most once, however many callers there are and however their calls
\* interleave, and all calls that have returned have returned the same path.
C30_SearchedOnce ==
    (\A c \in Callers : ff_returned[c] # "Err") =>
        /\ ff_searches <= 1
        /\ \A c, d \in Callers :
              (ff_returned[c] # "None" /\ ff_returned[d] # "None")
              => ff_returned[c] = ff_returned[d]

\* C40: chunk_text returns, with at most one chunk per character of the text,
\* also when the overlap is as large as the chunk size or larger; each chunk
\* starts max(chunk_size_chars - overlap_chars, 1) characters behind the one
\* before it; and the last chunk ends with the last character of the text.
C40_StepsToTheEnd ==
    text_op = "chunk_text" =>
        LET step == Max(SaturatingSub(text_out.chunk_size_tokens * 4,
                                      text_out.overlap_tokens * 4), 1)
        IN /\ Len(Chunks) <= Len(text)
           /\ \A j \in 2..Len(Chunks) :
                 Chunks[j].start = Chunks[j - 1].start + step
           /\ Chunks # <<>> => Chunks[Len(Chunks)].end = Len(text)

\* an overlap above the chunk size: the chunks start one character apart
C40_Witness ==
    /\ text_op = "chunk_text"
    /\ text_out.chunk_size_tokens = 1
    /\ text_out.overlap_tokens = 2
    /\ Len(Chunks) > 2
    /\ Chunks[Len(Chunks)].end = Len(text)

\* C38: on the multi-level path the chunk size token_threshold - 300 does not
\* underflow and is at least 1, and the transcript is cut into at least one
\* chunk.
C38_ChunkSizeAtLeastOne ==
    summary_path = "multi-level" =>
        /\ token_threshold >= CHUNK_OVERHEAD_TOKENS + 1
        /\ svc_pc # "panicked"
        /\ chunks_left + Len(RequestsOf("chunk")) >= 1

\* C39: after is_ffmpeg_ready has returned true, it does not return false,
\* and get_ffmpeg_path returns neither None nor two different paths; and
\* while no search has found a path the stored path is absent.
C39_ReadinessMonotonic ==
    /\ \A i, j \in 1..Len(ff_probes) :
          (i < j /\ ff_probes[i] = Probe("is_ffmpeg_ready", "true")) =>
              /\ ff_probes[j].call = "is_ffmpeg_ready" => ff_probes[j].result = "true"
              /\ ff_probes[j].call = "get_ffmpeg_path" => ff_probes[j].result # "None"
              /\ \A k \in 1..Len(ff_probes) :
                    (/\ j < k
                     /\ ff_probes[j].call = "get_ffmpeg_path"
                     /\ ff_probes[k].call = "get_ffmpeg_path")
                    => ff_probes[k].result = ff_probes[j].result
    /\ (\A c \in Callers : ff_path[c] = "None") => ffmpeg_state = "None"

\* what process_audio_data has reported
CallbackErrors(es) == SelectSeq(es, LAMBDA e : e.by = "process_audio_data")

\* C34: a call of process_audio_data while is_recording is false sends
\* nothing to the recording sender or to the pipeline, reports no error and
\* leaves the resampler input buffer and the chunk counter as they were.
C34_StoppedCallbackHasNoEffect ==
    [][(/\ ~is_recording
        /\ callbacks' # callbacks \/ early_returns' # early_returns)
       => /\ saver_sink' = saver_sink
          /\ queue' = queue
          /\ CallbackErrors(errors') = CallbackErrors(errors)
          /\ resampler_input_buffer' = resampler_input_buffer
          /\ chunk_counter' = chunk_counter]_vars

\* a callback came after the recording was stopped, on a source that has
\* sent chunks and holds samples in its buffer
C34_Witness ==
    /\ ~is_recording
    /\ early_returns = 1
    /\ \E s \in Sources : chunk_counter[s] > 0 /\ resampler_input_buffer[s] > 0

\* C37: on a source that needs resampling the input buffer holds fewer than
\* 512 samples after every call of process_audio_data.
C37_BufferBelowOneBlock ==
    \A s \in Sources :
        NeedsResampling(s) => resampler_input_buffer[s] < RESAMPLER_CHUNK_SIZE

\* C35: once is_recording is false the pipeline task terminates: no new
\* receive is begun after the flag went false (so at most the receive in
\* progress completes and at most its chunk is processed), the task reaches
\* its return, the step that returns has flushed the VAD, and after the
\* return the task receives and delivers nothing more.
C35_TerminatesAfterStop ==
    /\ (~is_recording /\ pipe_pc # "none") ~> (pipe_pc = "done")
    /\ [][~is_recording /\ pipe_pc' = "recv" => pipe_pc = "recv"]_vars
    /\ [][pipe_pc # "done" /\ pipe_pc' = "done" => ~vad_dirty']_vars
    /\ [][pipe_pc = "done" => /\ pipe_pc' = "done"
                              /\ received' = received
                              /\ transcription_sink' = transcription_sink]_vars

\* the task has returned after the stop although chunks are still queued
\* and the manager's sender is alive
C35_Witness ==
    /\ ~is_recording
    /\ pipe_pc = "done"
    /\ Len(queue) >= 2
    /\ mgr_sender
    /\ received >= 1

\* C36: whatever number of flush sentinels is received and with the flush
\* at task exit, no speech segment occurs twice in the transcription sink.
C36_EachSegmentAtMostOnce ==
    \A i, j \in 1..Len(transcription_sink) :
        i # j => transcription_sink[i].seg # transcription_sink[j].seg

\* the task has returned after receiving three sentinels or more, and a
\* segment that a flush returned is in the sink
C36_Witness ==
    /\ pipe_pc = "done"
    /\ Cardinality({h \in handled : h.flush}) >= 3
    /\ \E i \in 1..Len(transcription_sink) : transcription_sink[i].via = "flush"

\* C33: with the language "pt" every prompt getter returns its Portuguese
\* prompt; with "en" and with any other code it returns its English prompt,
\* the same one it returns for "en".
C33_PromptLanguage ==
    \A g \in PromptGetters :
        prompts[g] # "" =>
            /\ prompt_language = "pt" => PromptLanguage[prompts[g]] = "Portuguese"
            /\ prompt_language # "pt" =>
                 /\ PromptLanguage[prompts[g]] = "English"
                 /\ prompts[g] = PromptOf(g, "en")

\* all five getters have answered for a code the application does not know
C33_Witness ==
    /\ prompt_language \notin {"pt", "en"}
    /\ \A g \in PromptGetters : prompts[g] # ""

\* C31 as stated: when get_safe_recording_devices has returned and a default
\* microphone exists, a microphone is returned: a non-Bluetooth default
\* itself, and for a Bluetooth default a built-in input or that default; the
\* microphone is None exactly when there is no default microphone, and the
\* speaker is None exactly when there is no default speaker.
C31_MicrophoneAlwaysChosen ==
    safe_devices.status # "pending" =>
        /\ default_mic # "None" =>
             /\ safe_devices.status = "Ok"
             /\ safe_devices.mic # "None"
             /\ ~IsBluetooth(Detect[default_mic]) => safe_devices.mic = default_mic
             /\ IsBluetooth(Detect[default_mic]) =>
                  \/ safe_devices.mic = default_mic
                  \/ \E r \in BuiltinInputSearches :
                       r.res = "Some" /\ safe_devices.mic = r.dev
        /\ default_mic = "None" =>
             /\ safe_devices.mic = "None"
             /\ default_speaker # "None" => safe_devices.speaker # "None"
        /\ default_speaker = "None" => safe_devices.speaker = "None"

\* C32 as stated: every converted sample of an integer format, the minimum
\* of the type included, lies in [-1, 1].
C32_ConvertedWithinUnit ==
    f32_data.sent => ~ExceedsOne(f32_data.num, f32_data.den)

====
